---- MODULE Spec2Model ----
(***************************************************************************)
(* noise2read, data_generation.py: the read graph built by generate_graph  *)
(* and the extraction passes of DataGneration that run over it.            *)
(*                                                                         *)
(* A read is a sequence of one-character strings.  A graph is a record     *)
(*   nodes : the nodes in insertion order (networkx keeps that order)      *)
(*   count, flag : the node attributes 'count' and 'flag'                  *)
(*   adj   : node -> its neighbours in insertion order                     *)
(***************************************************************************)
EXTENDS Integers, Sequences, FiniteSets, TLC

VARIABLES
    records,        \* the input: the sequence of every record, its id is its index
    cfg,            \* the configuration and the edit distance of the run
    pc,             \* where the run is
    exit_code,      \* the exit status of sys.exit
    \* generate_graph
    graph, unique_seqs, seqs2id_dict, high_freq, low_freq,
    found,          \* per read of high_freq: the result of its unit of work
    collected,      \* the number of results the loop over pool.imap has taken
    edges_lst,
    ret_graph,      \* the graph generate_graph returned
    \* extract_err_samples, extract_genuine_ambi_errs
    subgraphs,      \* the copies of the components, in the calling process
    wsub,           \* the subgraphs of the forked worker processes
    res,            \* per subgraph: the call of the pool and what it returned
    merged,         \* the number of results the loop over pool.imap has taken
    genuine_lst, ambiguous_lst, genuine_df, ambiguous_df,
    passes,         \* the number of calls of extract_genuine_ambi_errs
    direct,         \* the last call of the classifier in the calling process
    negative_df,
    \* extract_err_samples, extract_high_ambiguous_errs
    high_ambiguous, \* config.high_ambiguous
    high_ambiguous_df,
    \* extract_isolates
    name_lst, non_name_lst,
    \* err_type_classification called on its own
    annot_line,     \* the argument of the call
    annot_out,      \* what the call raised or returned
    \* extract_amplicon_err_samples
    amplicon_df

inputVars == <<records, cfg>>

buildVars == <<graph, unique_seqs, seqs2id_dict, high_freq, low_freq, found,
               collected, edges_lst, ret_graph>>

passVars == <<subgraphs, wsub, res, merged, genuine_lst, ambiguous_lst,
              genuine_df, ambiguous_df, passes, direct>>

highVars == <<high_ambiguous, high_ambiguous_df>>

isoVars == <<name_lst, non_name_lst>>

annotVars == <<annot_line, annot_out>>

ampVars == <<amplicon_df>>

otherVars == <<highVars, isoVars, annotVars, ampVars>>

vars == <<inputVars, pc, exit_code, buildVars, passVars, negative_df, otherVars>>

(***************************************************************************)
(* Bounds of the model and the values the configuration is drawn from.     *)
(***************************************************************************)
MaxRecords == 5

MaxPasses == 2

MaxDirectCalls == 2

Reads == { <<"A", "A">>, <<"C", "A">>, <<"C", "C">> }

HighFreqThreValues == {1, 2}

MaxErrorFreqValues == {1, 2}

AmbiguousDegreeValues == {1, 2}

EditDisValues == {1, 2}

Streams == UNION { [1..n -> Reads] : n \in 0..MaxRecords }

Configs == [high_freq_thre : HighFreqThreValues,
            max_error_freq : MaxErrorFreqValues,
            ambiguous_error_node_degree : AmbiguousDegreeValues,
            edit_dis : EditDisValues]

(***************************************************************************)
(* Python lists, sets and slices.                                          *)
(***************************************************************************)
Min(a, b) == IF a <= b THEN a ELSE b

Max(a, b) == IF a >= b THEN a ELSE b

SeqToSet(s) == { s[i] : i \in DOMAIN s }

Contains(s, x) == \E i \in DOMAIN s : s[i] = x

CountOf(s, x) == Cardinality({ i \in DOMAIN s : s[i] = x })

\* the elements of s without repetition, in the order of their first occurrence
RECURSIVE Unique(_)
Unique(s) ==
    IF s = <<>> THEN <<>>
    ELSE LET r == Unique(SubSeq(s, 1, Len(s) - 1))
             x == s[Len(s)]
         IN  IF Contains(r, x) THEN r ELSE Append(r, x)

\* every order a Python set of these elements may be iterated in
RECURSIVE Orderings(_)
Orderings(S) ==
    IF S = {} THEN { <<>> }
    ELSE UNION { { <<x>> \o t : t \in Orderings(S \ {x}) } : x \in S }

\* PySlice with the end of the slice taken as its last index
PySlice_Inclusive(s, lo, hi) == SubSeq(s, lo + 1, Min(hi + 1, Len(s)))

\* s[lo:hi] for 0 <= lo
PySlice(s, lo, hi) == SubSeq(s, lo + 1, Min(hi, Len(s)))

\* s[-k:]
PyTail(s, k) == SubSeq(s, Max(1, Len(s) - k + 1), Len(s))

(***************************************************************************)
(* noise2read.utils and the editdistance package.                          *)
(***************************************************************************)
Bases == {"A", "C", "G", "T"}

\* enumerate_ed1_seqs: one position substituted by another base
enumerate_ed1_seqs(read) ==
    { [read EXCEPT ![i] = b] : i \in DOMAIN read, b \in Bases } \ {read}

\* enumerate_ed2_seqs: two positions substituted, each by another base
enumerate_ed2_seqs(read) ==
    { s \in { [read EXCEPT ![i] = b, ![j] = c] :
                  i \in DOMAIN read, j \in DOMAIN read, b \in Bases, c \in Bases } :
          Cardinality({ k \in DOMAIN read : s[k] # read[k] }) = 2 }

\* editdistance.eval: the Levenshtein distance
RECURSIVE EditDistance(_, _)
EditDistance(a, b) ==
    IF a = <<>> THEN Len(b)
    ELSE IF b = <<>> THEN Len(a)
    ELSE IF Head(a) = Head(b) THEN EditDistance(Tail(a), Tail(b))
    ELSE 1 + Min(EditDistance(Tail(a), Tail(b)),
                 Min(EditDistance(Tail(a), b), EditDistance(a, Tail(b))))

(***************************************************************************)
(* networkx.Graph                                                          *)
(***************************************************************************)
EmptyGraph == [nodes |-> <<>>, count |-> <<>>, flag |-> <<>>, adj |-> <<>>]

has_node(g, n) == Contains(g.nodes, n)

\* add_node(n, count=c, flag=f) of a node the graph does not have
add_node(g, n, c, f) ==
    [nodes |-> Append(g.nodes, n),
     count |-> (n :> c) @@ g.count,
     flag  |-> (n :> f) @@ g.flag,
     adj   |-> (n :> <<>>) @@ g.adj]

\* a node that add_edges_from has to create carries no attribute: count 0 here
EnsureNode(g, n) == IF has_node(g, n) THEN g ELSE add_node(g, n, 0, FALSE)

Link(g, u, v) ==
    IF Contains(g.adj[u], v) THEN g
    ELSE [g EXCEPT !.adj[u] = Append(@, v)]

add_edge(g, u, v) == Link(Link(EnsureNode(EnsureNode(g, u), v), u, v), v, u)

RECURSIVE add_edges_from(_, _)
add_edges_from(g, edges) ==
    IF edges = <<>> THEN g
    ELSE \* the graph with the first edge is computed once, then the others are added
         CHOOSE r \in { add_edges_from(h, Tail(edges)) :
                           h \in {add_edge(g, edges[1][1], edges[1][2])} } : TRUE

NodeSet(g) == SeqToSet(g.nodes)

Degree(g, n) == Len(g.adj[n]) + (IF Contains(g.adj[n], n) THEN 1 ELSE 0)

\* the edges as unordered pairs; a self-loop is a one-element set
EdgeSet(g) ==
    UNION { { {u, g.adj[u][i]} : i \in DOMAIN g.adj[u] } : u \in NodeSet(g) }

\* the nodes reachable from the nodes of S
RECURSIVE Reach(_, _)
Reach(g, S) ==
    LET T == S \cup UNION { SeqToSet(g.adj[n]) : n \in S }
    IN  IF T = S THEN S ELSE Reach(g, T)

\* ComponentsFrom that forgets the nodes of the components it has found
RECURSIVE ComponentsFrom_NoSeen(_, _, _)
ComponentsFrom_NoSeen(g, nodes, seen) ==
    IF nodes = <<>> THEN <<>>
    ELSE IF Head(nodes) \in seen THEN ComponentsFrom_NoSeen(g, Tail(nodes), seen)
    ELSE LET c == Reach(g, {Head(nodes)})
         IN  <<c>> \o ComponentsFrom_NoSeen(g, Tail(nodes), seen \cup {Head(nodes)})

\* nx.connected_components: the components in the order of their first node
RECURSIVE ComponentsFrom(_, _, _)
ComponentsFrom(g, nodes, seen) ==
    IF nodes = <<>> THEN <<>>
    ELSE IF Head(nodes) \in seen THEN ComponentsFrom(g, Tail(nodes), seen)
    ELSE LET c == Reach(g, {Head(nodes)})
         IN  <<c>> \o ComponentsFrom(g, Tail(nodes), seen \cup c)

connected_components(g) == ComponentsFrom(g, g.nodes, {})

\* graph.subgraph(c) iterates its nodes in the order of c, a Python set, when c
\* has fewer than half the nodes of the graph, and in the order of the graph
\* otherwise
SubgraphOrders(g, c) ==
    IF 2 * Cardinality(c) < Len(g.nodes) THEN Orderings(c)
    ELSE { SelectSeq(g.nodes, LAMBDA n : n \in c) }

\* the nodes of order with the attributes they have in g, and no edge
RECURSIVE CopyNodes(_, _, _)
CopyNodes(h, g, order) ==
    IF order = <<>> THEN h
    ELSE CopyNodes(add_node(h, Head(order), g.count[Head(order)], g.flag[Head(order)]),
                   g, Tail(order))

\* (u, v) for every u of order and every neighbour v of u, in the order of the
\* adjacency of u
RECURSIVE AdjacencyPairs(_, _)
AdjacencyPairs(g, order) ==
    IF order = <<>> THEN <<>>
    ELSE [i \in DOMAIN g.adj[Head(order)] |-> <<Head(order), g.adj[Head(order)][i]>>]
         \o AdjacencyPairs(g, Tail(order))

\* graph.subgraph(c).copy() when the subgraph iterates its nodes in this order:
\* the copy gets the nodes with their attributes, then every edge, node after node
subgraph_copy(g, order) ==
    add_edges_from(CopyNodes(EmptyGraph, g, order), AdjacencyPairs(g, order))

\* line 189: the lists of copies the components may give
RECURSIVE SubgraphLists(_, _)
SubgraphLists(g, comps) ==
    IF comps = <<>> THEN { <<>> }
    ELSE { <<subgraph_copy(g, o)>> \o t :
              o \in SubgraphOrders(g, Head(comps)), t \in SubgraphLists(g, Tail(comps)) }

is_connected(g) == Reach(g, {g.nodes[1]}) = NodeSet(g)

isolates(g) == { n \in NodeSet(g) : Degree(g, n) = 0 }

\* list.sort(key=lambda x:x[1], reverse=True) of a list of tuples: stable,
\* descending by the second element
RECURSIVE SortDesc(_)
SortDesc(s) ==
    IF s = <<>> THEN <<>>
    ELSE LET r == SortDesc(SubSeq(s, 1, Len(s) - 1))
             x == s[Len(s)]
             k == Cardinality({ i \in DOMAIN r : r[i][2] >= x[2] })
         IN  SubSeq(r, 1, k) \o <<x>> \o SubSeq(r, k + 1, Len(r))

(***************************************************************************)
(* err_type_classification                                                 *)
(***************************************************************************)
\* the first index (from 0) below n where a and b differ, n when there is none
FirstMismatch(a, b, n) ==
    LET D == { i \in 0..(n - 1) : a[i + 1] # b[i + 1] }
    IN  IF D = {} THEN n ELSE CHOOSE i \in D : \A j \in D : i <= j

NoLine == [StartRead |-> <<>>]

Annotated(line, first, second, position, f_kmer, s_kmer) ==
    [raised |-> "none",
     line |-> [StartRead |-> line.StartRead, StartReadCount |-> line.StartReadCount,
               StartDegree |-> line.StartDegree,
               ErrorTye |-> <<first, "-", second>>, ErrorPosition |-> position,
               StartErrKmer |-> f_kmer, EndErrKmer |-> s_kmer,
               EndRead |-> line.EndRead, EndReadCount |-> line.EndReadCount,
               EndDegree |-> line.EndDegree]]

\* err_type_classification with the test of line 90 accepting a distance of 2 as well
err_type_classification_UpToTwo(line) ==
    LET read1 == line.StartRead
        read2 == line.EndRead
        f_len == Len(read1)
        s_len == Len(read2)
    IN  IF EditDistance(read1, read2) \notin {1, 2}
        THEN [raised |-> "ValueError", line |-> NoLine]
        ELSE IF f_len = s_len
        THEN LET position == FirstMismatch(read1, read2, f_len)
             IN  Annotated(line, read1[position + 1], read2[position + 1], position,
                     IF position = 0 THEN PySlice(read1, 0, 2)
                     ELSE IF position = f_len THEN PyTail(read1, 2)
                     ELSE PySlice(read1, position - 1, position + 2),
                     IF position = 0 THEN PySlice(read2, 0, 2)
                     ELSE IF position = f_len THEN PyTail(read2, 2)
                     ELSE PySlice(read2, position - 1, position + 2))
        ELSE IF f_len < s_len
        THEN LET position == FirstMismatch(read1, read2, f_len)
             IN  IF f_len = 0
                 THEN [raised |-> "IndexError", line |-> NoLine]
                 ELSE Annotated(line, "X", read2[position + 1], position,
                         IF position = 0 THEN <<"X", read1[1]>>
                         ELSE IF position = f_len THEN <<read1[f_len], "X">>
                         ELSE <<read1[position], "X", read1[position + 1]>>,
                         IF position = 0 THEN PySlice(read2, 0, 2)
                         ELSE IF position = f_len THEN PyTail(read2, 2)
                         ELSE PySlice(read2, position - 1, position + 2))
        ELSE LET position == FirstMismatch(read1, read2, s_len)
             IN  IF s_len = 0
                 THEN [raised |-> "IndexError", line |-> NoLine]
                 ELSE Annotated(line, read1[position + 1], "X", position,
                         IF position = 0 THEN PySlice(read1, 0, 2)
                         ELSE IF position = s_len THEN PyTail(read1, 2)
                         ELSE PySlice(read1, position - 1, position + 2),
                         IF position = 0 THEN <<"X", read2[1]>>
                         ELSE IF position = s_len THEN <<read2[s_len], "X">>
                         ELSE <<read2[position], "X", read2[position + 1]>>)

\* lines 67-159
err_type_classification(line) ==
    LET read1 == line.StartRead
        read2 == line.EndRead
        f_len == Len(read1)
        s_len == Len(read2)
    IN  IF EditDistance(read1, read2) # 1
        THEN [raised |-> "ValueError", line |-> NoLine]
        ELSE IF f_len = s_len
        THEN LET position == FirstMismatch(read1, read2, f_len)
             IN  Annotated(line, read1[position + 1], read2[position + 1], position,
                     IF position = 0 THEN PySlice(read1, 0, 2)
                     ELSE IF position = f_len THEN PyTail(read1, 2)
                     ELSE PySlice(read1, position - 1, position + 2),
                     IF position = 0 THEN PySlice(read2, 0, 2)
                     ELSE IF position = f_len THEN PyTail(read2, 2)
                     ELSE PySlice(read2, position - 1, position + 2))
        ELSE IF f_len < s_len
        THEN LET position == FirstMismatch(read1, read2, f_len)
             IN  IF f_len = 0
                 THEN [raised |-> "IndexError", line |-> NoLine]
                 ELSE Annotated(line, "X", read2[position + 1], position,
                         IF position = 0 THEN <<"X", read1[1]>>
                         ELSE IF position = f_len THEN <<read1[f_len], "X">>
                         ELSE <<read1[position], "X", read1[position + 1]>>,
                         IF position = 0 THEN PySlice(read2, 0, 2)
                         ELSE IF position = f_len THEN PyTail(read2, 2)
                         ELSE PySlice(read2, position - 1, position + 2))
        ELSE LET position == FirstMismatch(read1, read2, s_len)
             IN  IF s_len = 0
                 THEN [raised |-> "IndexError", line |-> NoLine]
                 ELSE Annotated(line, read1[position + 1], "X", position,
                         IF position = 0 THEN PySlice(read1, 0, 2)
                         ELSE IF position = s_len THEN PyTail(read1, 2)
                         ELSE PySlice(read1, position - 1, position + 2),
                         IF position = 0 THEN <<"X", read2[1]>>
                         ELSE IF position = s_len THEN <<read2[s_len], "X">>
                         ELSE <<read2[position], "X", read2[position + 1]>>)

(***************************************************************************)
(* extract_genuine_ambi_errs_subgraph                                      *)
(***************************************************************************)
\* [parent, parent count, degree of degree_of, node, node count, node degree]
MakeLine(sg, parent, parent_count, degree_of, node) ==
    [StartRead |-> parent, StartReadCount |-> parent_count,
     StartDegree |-> Degree(sg, degree_of),
     EndRead |-> node, EndReadCount |-> sg.count[node], EndDegree |-> Degree(sg, node)]

\* lines 356-364, 380-388, 396-399: the line is annotated when edit_dis is 1
NewLine(line, edit_dis) ==
    IF edit_dis = 1 THEN err_type_classification(line)
    ELSE [raised |-> "none", line |-> line]

\* the first exception among the results, "none" when there is none
FirstRaised(rs) ==
    LET R == { i \in DOMAIN rs : rs[i].raised # "none" }
    IN  IF R = {} THEN "none" ELSE rs[CHOOSE i \in R : \A j \in R : i <= j].raised

\* DegreeOneCase with > for >= in the test of line 354
DegreeOneCase_Strict(acc, marked, node, edit_dis, config) ==
    LET sg == acc.sg
        nei == sg.adj[node][1]
        nei_count == sg.count[nei]
        r == NewLine(MakeLine(sg, nei, nei_count, nei, node), edit_dis)
    IN  IF nei_count > config.high_freq_thre
        THEN IF r.raised # "none" THEN [acc EXCEPT !.raised = r.raised]
             ELSE [marked EXCEPT !.gen = Append(@, r.line)]
        ELSE marked

\* lines 350-364: a node of degree 1
DegreeOneCase(acc, marked, node, edit_dis, config) ==
    LET sg == acc.sg
        nei == sg.adj[node][1]
        nei_count == sg.count[nei]
        r == NewLine(MakeLine(sg, nei, nei_count, nei, node), edit_dis)
    IN  IF nei_count >= config.high_freq_thre
        THEN IF r.raised # "none" THEN [acc EXCEPT !.raised = r.raised]
             ELSE [marked EXCEPT !.gen = Append(@, r.line)]
        ELSE marked

\* SeveralNeighboursCase with high_num >= 1 for high_num == 1 in the test of line
\* 374: the neighbour of the highest count is taken as the parent
SeveralNeighboursCase_FirstHigh(acc, marked, node, edit_dis, config) ==
    LET sg == acc.sg
        node_neis == sg.adj[node]
        high_neis == SelectSeq(node_neis, LAMBDA n : sg.count[n] >= config.high_freq_thre)
        nei2count == [i \in DOMAIN high_neis |-> <<high_neis[i], sg.count[high_neis[i]]>>]
        first == SortDesc(nei2count)[1]
        r == NewLine(MakeLine(sg, first[1], first[2], first[1], node), edit_dis)
    IN  IF Len(nei2count) >= 1
        THEN IF r.raised # "none" THEN [acc EXCEPT !.raised = r.raised]
             ELSE [marked EXCEPT !.gen = Append(@, r.line)]
        ELSE marked

\* lines 365-405: a node of another degree up to ambiguous_error_node_degree
SeveralNeighboursCase(acc, marked, node, edit_dis, config) ==
    LET sg == acc.sg
        node_neis == sg.adj[node]
        high_neis == SelectSeq(node_neis, LAMBDA n : sg.count[n] >= config.high_freq_thre)
        nei2count == [i \in DOMAIN high_neis |-> <<high_neis[i], sg.count[high_neis[i]]>>]
        high_num == Len(nei2count)
        first == SortDesc(nei2count)[1]
        r == NewLine(MakeLine(sg, first[1], first[2], first[1], node), edit_dis)
        \* line 394: the degree is read from nei, the last neighbour of the loop of line 368
        nei == node_neis[Len(node_neis)]
        kept == SelectSeq(nei2count, LAMBDA t : t[2] >= config.high_freq_thre)
        tmp == [i \in DOMAIN kept |->
                   NewLine(MakeLine(sg, kept[i][1], kept[i][2], nei, node), edit_dis)]
        tmp_lst == [i \in DOMAIN tmp |-> tmp[i].line]
    IN  IF high_num = 1
        THEN IF first[2] >= config.high_freq_thre
             THEN IF r.raised # "none" THEN [acc EXCEPT !.raised = r.raised]
                  ELSE [marked EXCEPT !.gen = Append(@, r.line)]
             ELSE marked
        ELSE IF FirstRaised(tmp) # "none" THEN [acc EXCEPT !.raised = FirstRaised(tmp)]
             ELSE IF tmp_lst # <<>> THEN [marked EXCEPT !.ambi = Append(@, tmp_lst)]
             ELSE marked

\* ClassifyNode without the test of the count in line 348
ClassifyNode_NoCountTest(acc, node, edit_dis, config) ==
    LET sg == acc.sg
        node_degree == Degree(sg, node)
        marked == [acc EXCEPT !.sg.flag[node] = TRUE]
    IN  IF acc.raised # "none" THEN acc
        ELSE IF ~sg.flag[node]
        THEN IF node_degree = 1
             THEN DegreeOneCase(acc, marked, node, edit_dis, config)
             ELSE IF node_degree <= config.ambiguous_error_node_degree
             THEN SeveralNeighboursCase(acc, marked, node, edit_dis, config)
             ELSE marked
        ELSE acc

\* ClassifyNode without the test of the flag in line 348
ClassifyNode_NoFlagTest(acc, node, edit_dis, config) ==
    LET sg == acc.sg
        node_count == sg.count[node]
        node_degree == Degree(sg, node)
        marked == [acc EXCEPT !.sg.flag[node] = TRUE]
    IN  IF acc.raised # "none" THEN acc
        ELSE IF node_count <= config.max_error_freq
        THEN IF node_degree = 1
             THEN DegreeOneCase(acc, marked, node, edit_dis, config)
             ELSE IF node_degree <= config.ambiguous_error_node_degree
             THEN SeveralNeighboursCase(acc, marked, node, edit_dis, config)
             ELSE marked
        ELSE acc

\* lines 346-409: the body of the loop over the nodes; acc is
\* [raised, gen (gen_lst), ambi (ambi_lst), sg (the subgraph and its flags)]
ClassifyNode(acc, node, edit_dis, config) ==
    LET sg == acc.sg
        node_count == sg.count[node]
        node_degree == Degree(sg, node)
        marked == [acc EXCEPT !.sg.flag[node] = TRUE]
    IN  IF acc.raised # "none" THEN acc
        ELSE IF node_count <= config.max_error_freq /\ ~sg.flag[node]
        THEN IF node_degree = 1
             THEN DegreeOneCase(acc, marked, node, edit_dis, config)
             ELSE IF node_degree <= config.ambiguous_error_node_degree
             THEN SeveralNeighboursCase(acc, marked, node, edit_dis, config)
             ELSE marked
        ELSE acc

RECURSIVE ClassifyNodes(_, _, _, _)
ClassifyNodes(acc, nodes_lst, edit_dis, config) ==
    IF nodes_lst = <<>> THEN acc
    ELSE \* the first node is handled once, then the loop goes on from what it left
         CHOOSE r \in { ClassifyNodes(a, Tail(nodes_lst), edit_dis, config) :
                           a \in {ClassifyNode(acc, Head(nodes_lst), edit_dis, config)} } :
            TRUE

\* extract_genuine_ambi_errs_subgraph without the test of line 343: the loop
\* over the nodes also runs on a component without edges
extract_genuine_ambi_errs_subgraph_NoEdgeTest(sub_graphs, edit_dis, ii, config) ==
    LET sub_graph == sub_graphs[ii]
        start == [raised |-> "none", gen |-> <<>>, ambi |-> <<>>, sg |-> sub_graph]
    IN  ClassifyNodes(start, sub_graph.nodes, edit_dis, config)

\* the result [gen_lst, ambi_lst], the exception raised if any, and the subgraph
\* of the process that ran the call, as the call leaves it
extract_genuine_ambi_errs_subgraph(sub_graphs, edit_dis, ii, config) ==
    LET sub_graph == sub_graphs[ii]
        start == [raised |-> "none", gen |-> <<>>, ambi |-> <<>>, sg |-> sub_graph]
    IN  IF Cardinality(EdgeSet(sub_graph)) > 0
        THEN ClassifyNodes(start, sub_graph.nodes, edit_dis, config)
        ELSE start

(***************************************************************************)
(* generate_graph                                                          *)
(***************************************************************************)
\* a unit of work of a pool that has not run yet
NotRun == [run |-> FALSE, edges |-> <<>>]

NotReturned == [returned |-> FALSE, graph |-> EmptyGraph]

\* Counter(total_seqs).items(): the unique reads in order of first occurrence
read_count(total_seqs) == Unique(total_seqs)

\* AddCountedNodes with every node added with count 1
RECURSIVE AddCountedNodes_CountOne(_, _, _)
AddCountedNodes_CountOne(g, reads, total_seqs) ==
    IF reads = <<>> THEN g
    ELSE LET read == Head(reads)
             g1 == IF ~has_node(g, read) THEN add_node(g, read, 1, FALSE) ELSE g
         IN  AddCountedNodes_CountOne(g1, Tail(reads), total_seqs)

\* lines 557-559: one node per unique read, with its frequency and flag=False
RECURSIVE AddCountedNodes(_, _, _)
AddCountedNodes(g, reads, total_seqs) ==
    IF reads = <<>> THEN g
    ELSE LET read == Head(reads)
             g1 == IF ~has_node(g, read)
                   THEN add_node(g, read, CountOf(total_seqs, read), FALSE)
                   ELSE g
         IN  AddCountedNodes(g1, Tail(reads), total_seqs)

\* IsHighFreq with > for >= in the test of line 560
IsHighFreq_Strict(total_seqs, thre, read) == CountOf(total_seqs, read) > thre

\* line 560: a read of frequency >= high_freq_thre is a high-frequency read
IsHighFreq(total_seqs, thre, read) == CountOf(total_seqs, read) >= thre

\* HighFreqOf without the test of line 560: every read is searched from
HighFreqOf_All(total_seqs, thre) == read_count(total_seqs)

\* lines 560-561: high_freq, in the order of read_count
HighFreqOf(total_seqs, thre) ==
    SelectSeq(read_count(total_seqs), LAMBDA r : IsHighFreq(total_seqs, thre, r))

LowFreqOf(total_seqs, thre) ==
    SelectSeq(read_count(total_seqs), LAMBDA r : ~IsHighFreq(total_seqs, thre, r))

Seqs2Id(total_seqs) ==
    [ s \in SeqToSet(total_seqs) |->
        SelectSeq([i \in DOMAIN total_seqs |-> i], LAMBDA i : total_seqs[i] = s) ]

\* the edges a set of real neighbours gives, in every order the set may be iterated
EdgesOf(read, real_seqs) ==
    { [i \in DOMAIN o |-> <<read, o[i]>>] : o \in Orderings(real_seqs) }

real_ed1_seqs(total_seqs, read) ==
    EdgesOf(read, total_seqs \cap enumerate_ed1_seqs(read))

\* real_ed2_seqs with the candidates of real_ed1_seqs
real_ed2_seqs_Ed1(low_seqs, read) ==
    EdgesOf(read, enumerate_ed1_seqs(read) \cap SeqToSet(low_seqs))

real_ed2_seqs(low_seqs, read) ==
    EdgesOf(read, enumerate_ed2_seqs(read) \cap SeqToSet(low_seqs))

\* extract_high_ambiguous_errs has not returned
NotExtracted == [returned |-> FALSE, rows |-> <<>>]

\* err_type_classification has not returned
NotAnnotated == [raised |-> "not called", line |-> NoLine]

\* a call of the classifier that has not been made
NoCall == [run |-> FALSE, ii |-> 0, pre |-> EmptyGraph, post |-> EmptyGraph,
           raised |-> "none", gen |-> <<>>, ambi |-> <<>>]

\* the record of a call: its subgraph before and after, and what it returned
CallOf(sub_graphs, edit_dis, ii, config) ==
    LET out == extract_genuine_ambi_errs_subgraph(sub_graphs, edit_dis, ii, config)
    IN  [run |-> TRUE, ii |-> ii, pre |-> sub_graphs[ii], post |-> out.sg,
         raised |-> out.raised, gen |-> out.gen, ambi |-> out.ambi]

\* nothing of generate_graph has run
BuildIdle ==
    /\ exit_code = 0
    /\ unique_seqs = {}
    /\ seqs2id_dict = <<>>
    /\ high_freq = <<>>
    /\ low_freq = <<>>
    /\ found = <<>>
    /\ collected = 0
    /\ edges_lst = <<>>
    /\ ret_graph = NotReturned

\* nothing of the extraction passes has run
ExtractIdle ==
    /\ subgraphs = <<>>
    /\ wsub = <<>>
    /\ res = <<>>
    /\ merged = 0
    /\ genuine_lst = <<>>
    /\ ambiguous_lst = <<>>
    /\ genuine_df = <<>>
    /\ ambiguous_df = <<>>
    /\ passes = 0
    /\ direct = [calls |-> 0, last |-> NoCall]
    /\ negative_df = <<>>
    /\ high_ambiguous_df = NotExtracted
    /\ name_lst = <<>>
    /\ non_name_lst = <<>>
    /\ amplicon_df = <<>>

PipelineIdle ==
    /\ graph = EmptyGraph
    /\ BuildIdle
    /\ ExtractIdle

\* err_type_classification is not called on its own
AnnotIdle ==
    /\ annot_line = NoLine
    /\ annot_out = NotAnnotated

\* generate_graph is called, then extract_err_samples on the graph it returns, as
\* data_files does with edit_dis=1 and extract_ed2_errors with edit_dis=2;
\* config.high_ambiguous is False
Init ==
    /\ records \in Streams
    /\ cfg \in Configs
    /\ high_ambiguous = FALSE
    /\ pc = "start"
    /\ PipelineIdle
    /\ AnnotIdle

\* CountReads without the exit of lines 564-566
CountReads_NoExit ==
    /\ pc = "start"
    /\ unique_seqs' = SeqToSet(records)
    /\ seqs2id_dict' = Seqs2Id(records)
    /\ graph' = AddCountedNodes(EmptyGraph, read_count(records), records)
    /\ high_freq' = HighFreqOf(records, cfg.high_freq_thre)
    /\ low_freq' = LowFreqOf(records, cfg.high_freq_thre)
    /\ found' = [i \in DOMAIN high_freq' |-> NotRun]
    /\ pc' = "search"
    /\ UNCHANGED <<inputVars, otherVars, exit_code, collected, edges_lst, ret_graph, passVars,
                   negative_df>>

\* lines 541-573: read the records, count them, add the nodes, split by frequency;
\* sys.exit(1) when no read is a high-frequency read
CountReads ==
    /\ pc = "start"
    /\ unique_seqs' = SeqToSet(records)
    /\ seqs2id_dict' = Seqs2Id(records)
    /\ graph' = AddCountedNodes(EmptyGraph, read_count(records), records)
    /\ high_freq' = HighFreqOf(records, cfg.high_freq_thre)
    /\ low_freq' = LowFreqOf(records, cfg.high_freq_thre)
    /\ found' = [i \in DOMAIN high_freq' |-> NotRun]
    /\ IF Len(high_freq') = 0
       THEN pc' = "exited" /\ exit_code' = 1
       ELSE pc' = "search" /\ exit_code' = exit_code
    /\ UNCHANGED <<inputVars, otherVars, collected, edges_lst, ret_graph, passVars, negative_df>>

\* lines 575-581, one unit of work of the pool: the neighbours of high_freq[i]
SearchTask(i) ==
    /\ pc = "search"
    /\ i \in DOMAIN found
    /\ ~found[i].run
    /\ \E edges \in (IF cfg.edit_dis = 1
                     THEN real_ed1_seqs(unique_seqs, high_freq[i])
                     ELSE real_ed2_seqs(low_freq, high_freq[i])) :
          found' = [found EXCEPT ![i] = [run |-> TRUE, edges |-> edges]]
    /\ UNCHANGED <<inputVars, otherVars, pc, exit_code, graph, unique_seqs, seqs2id_dict,
                   high_freq, low_freq, collected, edges_lst, ret_graph,
                   passVars, negative_df>>

\* lines 577-581, the loop over pool.imap: the results arrive in the order of high_freq
CollectEdges ==
    /\ pc = "search"
    /\ collected < Len(high_freq)
    /\ found[collected + 1].run
    /\ edges_lst' = edges_lst \o found[collected + 1].edges
    /\ collected' = collected + 1
    /\ UNCHANGED <<inputVars, otherVars, pc, exit_code, graph, unique_seqs, seqs2id_dict,
                   high_freq, low_freq, found, ret_graph, passVars, negative_df>>

\* lines 593-620: add the edges and return the graph
AddEdges ==
    /\ pc = "search"
    /\ collected = Len(high_freq)
    /\ graph' = IF Len(edges_lst) > 0 THEN add_edges_from(graph, edges_lst) ELSE graph
    /\ ret_graph' = [returned |-> TRUE, graph |-> graph']
    /\ pc' = "built"
    /\ UNCHANGED <<inputVars, otherVars, exit_code, unique_seqs, seqs2id_dict,
                   high_freq, low_freq, found, collected, edges_lst,
                   passVars, negative_df>>

\* extract_err_samples, line 189: one copy per connected component
MakeSubgraphs ==
    /\ pc = "built"
    /\ subgraphs' \in SubgraphLists(graph, connected_components(graph))
    /\ pc' = "split"
    /\ UNCHANGED <<inputVars, otherVars, exit_code, buildVars, wsub, res, merged, genuine_lst,
                   ambiguous_lst, genuine_df, ambiguous_df, passes, direct,
                   negative_df>>

\* extract_genuine_ambi_errs, lines 257-273: the lists are emptied and the pool is
\* forked (start_method='fork'), every worker with its own copy of the subgraphs.
\* The pass is made after line 189, and again over the same subgraphs after a
\* pass has returned.
StartPass ==
    /\ pc \in {"split", "extracted"}
    /\ passes < MaxPasses
    /\ direct.calls = 0
    /\ passes' = passes + 1
    /\ genuine_lst' = <<>>
    /\ ambiguous_lst' = <<>>
    /\ merged' = 0
    /\ wsub' = subgraphs
    /\ res' = [i \in DOMAIN subgraphs |-> NoCall]
    /\ pc' = "classify"
    /\ UNCHANGED <<inputVars, otherVars, exit_code, buildVars, subgraphs, genuine_df,
                   ambiguous_df, direct, negative_df>>

\* line 274, one unit of work of the pool: subgraph ii in a worker process
ClassifyTask(ii) ==
    /\ pc = "classify"
    /\ ii \in DOMAIN res
    /\ ~res[ii].run
    /\ LET call == CallOf(wsub, cfg.edit_dis, ii, cfg)
       IN  /\ res' = [res EXCEPT ![ii] = call]
           /\ wsub' = [wsub EXCEPT ![ii] = call.post]
    /\ UNCHANGED <<inputVars, otherVars, pc, exit_code, buildVars, subgraphs, merged,
                   genuine_lst, ambiguous_lst, genuine_df, ambiguous_df, passes,
                   direct, negative_df>>

\* MergeResult that takes the result of a unit of work that has raised as a result
MergeResult_IgnoreFailure ==
    /\ pc = "classify"
    /\ merged < Len(subgraphs)
    /\ res[merged + 1].run
    /\ merged' = merged + 1
    /\ LET genu_ambi_lst == res[merged + 1]
       IN  IF FALSE
           THEN /\ pc' = "failed"
                /\ UNCHANGED <<genuine_lst, ambiguous_lst>>
           ELSE /\ pc' = pc
                /\ IF genu_ambi_lst.gen # <<>>
                   THEN /\ genuine_lst' = genuine_lst \o genu_ambi_lst.gen
                        /\ ambiguous_lst' = ambiguous_lst \o genu_ambi_lst.ambi
                   ELSE UNCHANGED <<genuine_lst, ambiguous_lst>>
    /\ UNCHANGED <<inputVars, otherVars, exit_code, buildVars, subgraphs, wsub, res,
                   genuine_df, ambiguous_df, passes, direct, negative_df>>

\* lines 274-277, the loop over pool.imap: the results arrive in the order of the
\* subgraphs; the exception of a unit of work is raised again here
MergeResult ==
    /\ pc = "classify"
    /\ merged < Len(subgraphs)
    /\ res[merged + 1].run
    /\ merged' = merged + 1
    /\ LET genu_ambi_lst == res[merged + 1]
       IN  IF genu_ambi_lst.raised # "none"
           THEN /\ pc' = "failed"
                /\ UNCHANGED <<genuine_lst, ambiguous_lst>>
           ELSE /\ pc' = pc
                /\ IF genu_ambi_lst.gen # <<>>
                   THEN /\ genuine_lst' = genuine_lst \o genu_ambi_lst.gen
                        /\ ambiguous_lst' = ambiguous_lst \o genu_ambi_lst.ambi
                   ELSE UNCHANGED <<genuine_lst, ambiguous_lst>>
    /\ UNCHANGED <<inputVars, otherVars, exit_code, buildVars, subgraphs, wsub, res,
                   genuine_df, ambiguous_df, passes, direct, negative_df>>

\* AmbiguousRows without the idx += 1 of line 293
RECURSIVE AmbiguousRows_SameIdx(_, _)
AmbiguousRows_SameIdx(groups, idx) ==
    IF groups = <<>> THEN <<>>
    ELSE [i \in DOMAIN Head(groups) |-> [idx |-> idx, row |-> Head(groups)[i]]]
         \o AmbiguousRows_SameIdx(Tail(groups), idx)

\* lines 289-293: one row per candidate of every group, the groups numbered from 0
RECURSIVE AmbiguousRows(_, _)
AmbiguousRows(groups, idx) ==
    IF groups = <<>> THEN <<>>
    ELSE [i \in DOMAIN Head(groups) |-> [idx |-> idx, row |-> Head(groups)[i]]]
         \o AmbiguousRows(Tail(groups), idx + 1)

\* line 291: sub_item.insert(0, idx) puts the number of its group at the front of
\* every row of ambiguous_lst, in place: after the loop of lines 289-293 the list
\* itself holds the numbered rows, group by group
RECURSIVE InsertIdx(_, _)
InsertIdx(groups, idx) ==
    IF groups = <<>> THEN <<>>
    ELSE << [i \in DOMAIN Head(groups) |-> [idx |-> idx, row |-> Head(groups)[i]]] >>
         \o InsertIdx(Tail(groups), idx + 1)

\* lines 287-298: the two data frames are built and returned; the loop that fills
\* ambiguous_df leaves its rows, idx in front, in ambiguous_lst
FinishPass ==
    /\ pc = "classify"
    /\ merged = Len(subgraphs)
    /\ genuine_df' = genuine_lst
    /\ ambiguous_df' = AmbiguousRows(ambiguous_lst, 0)
    /\ ambiguous_lst' = InsertIdx(ambiguous_lst, 0)
    /\ pc' = "extracted"
    /\ UNCHANGED <<inputVars, otherVars, exit_code, buildVars, subgraphs, wsub, res, merged,
                   genuine_lst, passes, direct, negative_df>>

\* extract_genuine_ambi_errs_subgraph called in the calling process, on its own
\* subgraphs: what running the classification again on a component means
DirectCall(ii) ==
    /\ pc = "extracted"
    /\ passes = 1
    /\ direct.calls < MaxDirectCalls
    /\ ii \in DOMAIN subgraphs
    /\ LET call == CallOf(subgraphs, cfg.edit_dis, ii, cfg)
       IN  /\ direct' = [calls |-> direct.calls + 1, last |-> call]
           /\ subgraphs' = [subgraphs EXCEPT ![ii] = call.post]
    /\ UNCHANGED <<inputVars, otherVars, pc, exit_code, buildVars, wsub, res, merged,
                   genuine_lst, ambiguous_lst, genuine_df, ambiguous_df, passes,
                   negative_df>>

\* lines 465-470: the rows of the isolated nodes of count >= high_freq_thre
NegativeRows(g, order, config) ==
    LET high == SelectSeq(order, LAMBDA k : g.count[k] >= config.high_freq_thre)
    IN  [i \in DOMAIN high |->
            [StartRead |-> high[i], StartReadCount |-> g.count[high[i]],
             StartDegree |-> Degree(g, high[i])]]

\* extract_isolated_negatives, lines 452-473, called at line 193 when the first pass
\* has returned: isolates is bound only when the graph is not connected; line 458
\* reads it and raises UnboundLocalError when it is not bound
ExtractIsolatedNegatives ==
    /\ pc = "extracted"
    /\ passes = 1
    /\ direct.calls = 0
    /\ IF ~is_connected(graph)
       THEN /\ \E order \in Orderings(isolates(graph)) :
                 negative_df' = NegativeRows(graph, order, cfg)
            /\ pc' = "done"
       ELSE /\ negative_df' = negative_df
            /\ pc' = "crashed"
    /\ UNCHANGED <<inputVars, otherVars, exit_code, buildVars, passVars>>

\* s.edges(): every edge once, from the first of its two nodes in the order of
\* the nodes, the neighbours in the order of the adjacency
RECURSIVE EdgesFrom(_, _, _)
EdgesFrom(g, nodes, seen) ==
    IF nodes = <<>> THEN <<>>
    ELSE LET u == Head(nodes)
             nbrs == SelectSeq(g.adj[u], LAMBDA v : v \notin seen)
         IN  [i \in DOMAIN nbrs |-> <<u, nbrs[i]>>]
             \o EdgesFrom(g, Tail(nodes), seen \cup {u})

edges(g) == EdgesFrom(g, g.nodes, {})

\* HighAmbiguousEdges with >= for > in the test of line 777
RECURSIVE HighAmbiguousEdges_AtLeast(_, _, _, _)
HighAmbiguousEdges_AtLeast(acc, s, edges_list, config) ==
    IF edges_list = <<>> \/ acc.raised # "none" THEN acc
    ELSE LET a == edges_list[1][1]
             b == edges_list[1][2]
             a_count == s.count[a]
             b_count == s.count[b]
             new_a2b == err_type_classification(MakeLine(s, a, a_count, a, b))
             new_b2a == err_type_classification(MakeLine(s, b, b_count, b, a))
             next == IF a_count >= config.high_freq_thre /\ b_count >= config.high_freq_thre
                     THEN IF new_a2b.raised # "none"
                          THEN [acc EXCEPT !.raised = new_a2b.raised]
                          ELSE IF new_b2a.raised # "none"
                          THEN [acc EXCEPT !.raised = new_b2a.raised]
                          ELSE [raised |-> "none",
                                rows |-> acc.rows \o
                                    << [idx |-> acc.idx, row |-> new_a2b.line],
                                       [idx |-> acc.idx, row |-> new_b2a.line] >>,
                                idx |-> acc.idx + 1]
                     ELSE acc
         IN  HighAmbiguousEdges_AtLeast(next, s, Tail(edges_list), config)

\* lines 772-786: the rows of the edges of one subgraph, acc is [raised, rows, idx]
RECURSIVE HighAmbiguousEdges(_, _, _, _)
HighAmbiguousEdges(acc, s, edges_list, config) ==
    IF edges_list = <<>> \/ acc.raised # "none" THEN acc
    ELSE LET a == edges_list[1][1]
             b == edges_list[1][2]
             a_count == s.count[a]
             b_count == s.count[b]
             new_a2b == err_type_classification(MakeLine(s, a, a_count, a, b))
             new_b2a == err_type_classification(MakeLine(s, b, b_count, b, a))
             next == IF a_count > config.high_freq_thre /\ b_count > config.high_freq_thre
                     THEN IF new_a2b.raised # "none"
                          THEN [acc EXCEPT !.raised = new_a2b.raised]
                          ELSE IF new_b2a.raised # "none"
                          THEN [acc EXCEPT !.raised = new_b2a.raised]
                          ELSE [raised |-> "none",
                                rows |-> acc.rows \o
                                    << [idx |-> acc.idx, row |-> new_a2b.line],
                                       [idx |-> acc.idx, row |-> new_b2a.line] >>,
                                idx |-> acc.idx + 1]
                     ELSE acc
         IN  HighAmbiguousEdges(next, s, Tail(edges_list), config)

\* lines 769-787: the loop over the subgraphs
RECURSIVE HighAmbiguousSubgraphs(_, _, _)
HighAmbiguousSubgraphs(acc, subs, config) ==
    IF subs = <<>> THEN acc
    ELSE HighAmbiguousSubgraphs(HighAmbiguousEdges(acc, Head(subs), edges(Head(subs)),
                                                   config),
                                Tail(subs), config)

\* lines 757-791
extract_high_ambiguous_errs(subs, config) ==
    HighAmbiguousSubgraphs([raised |-> "none", rows |-> <<>>, idx |-> 0], subs, config)

\* extract_err_samples, lines 194-199: the high ambiguous errors are extracted when
\* edit_dis is 1 and config.high_ambiguous is set, and the data frames are returned
ReturnSamples ==
    /\ pc = "done"
    /\ IF cfg.edit_dis = 1 /\ high_ambiguous
       THEN LET out == extract_high_ambiguous_errs(subgraphs, cfg)
            IN  IF out.raised # "none"
                THEN /\ pc' = "failed"
                     /\ high_ambiguous_df' = high_ambiguous_df
                ELSE /\ pc' = "returned"
                     /\ high_ambiguous_df' = [returned |-> TRUE, rows |-> out.rows]
       ELSE /\ pc' = "returned"
            /\ high_ambiguous_df' = high_ambiguous_df
    /\ UNCHANGED <<inputVars, exit_code, buildVars, passVars, negative_df,
                   high_ambiguous, isoVars, annotVars, ampVars>>

Next ==
    \/ CountReads
    \/ \E i \in 1..MaxRecords : SearchTask(i)
    \/ CollectEdges
    \/ AddEdges
    \/ MakeSubgraphs
    \/ StartPass
    \/ \E ii \in 1..MaxRecords : ClassifyTask(ii)
    \/ MergeResult
    \/ FinishPass
    \/ \E ii \in 1..MaxRecords : DirectCall(ii)
    \/ ExtractIsolatedNegatives
    \/ ReturnSamples

Spec == Init /\ [][Next]_vars

(***************************************************************************)
(* The calls of the classifier a state records, and what they emitted.     *)
(***************************************************************************)
Calls == { c \in { res[i] : i \in DOMAIN res } \cup { direct.last } : c.run }

\* the genuine records of call c whose child is n
GenOf(c, n) == { i \in DOMAIN c.gen : c.gen[i].EndRead = n }

\* the ambiguous groups of call c with a candidate whose child is n
AmbiOf(c, n) == { g \in DOMAIN c.ambi :
                    \E j \in DOMAIN c.ambi[g] : c.ambi[g][j].EndRead = n }

\* the neighbours of n of count >= high_freq_thre, before call c
HighNeis(c, n) == { m \in SeqToSet(c.pre.adj[n]) : c.pre.count[m] >= cfg.high_freq_thre }

Eligible(c, n) == c.pre.count[n] <= cfg.max_error_freq

ExactlyOne(bs) == Cardinality({ k \in DOMAIN bs : bs[k] }) = 1

\* centre is the centre of a star of unvisited leaves of count <= max_error_freq,
\* its own count >= high_freq_thre and > max_error_freq
IsStar(g, centre) ==
    /\ centre \in NodeSet(g)
    /\ Len(g.nodes) >= 2
    /\ g.count[centre] >= cfg.high_freq_thre
    /\ g.count[centre] > cfg.max_error_freq
    /\ \A n \in NodeSet(g) \ {centre} :
          /\ g.adj[n] = <<centre>>
          /\ g.count[n] <= cfg.max_error_freq
          /\ ~g.flag[n]

\* C1: after a call of the classifier every node of the component is in exactly
\* one of four classes: child of exactly one genuine record, child of exactly one
\* ambiguous group, of count <= max_error_freq and unclassified, of count >
\* max_error_freq; no node is the child of two records or groups, and every
\* record's child is a node of the component.
C1_FourClasses ==
    \A c \in Calls :
       /\ \A n \in NodeSet(c.pre) :
             LET g == Cardinality(GenOf(c, n))
                 a == Cardinality(AmbiOf(c, n))
             IN  /\ g + a <= 1
                 /\ ExactlyOne(<< g = 1,
                                  a = 1,
                                  Eligible(c, n) /\ g = 0 /\ a = 0,
                                  ~Eligible(c, n) >>)
       /\ \A i \in DOMAIN c.gen : c.gen[i].EndRead \in NodeSet(c.pre)
       /\ \A g \in DOMAIN c.ambi : \A j \in DOMAIN c.ambi[g] :
             c.ambi[g][j].EndRead \in NodeSet(c.pre)

\* one call with a genuine child, an ambiguous child and a node filtered by count
C1_Witness ==
    \E c \in Calls : \E n, m, k \in NodeSet(c.pre) :
       /\ Cardinality(GenOf(c, n)) = 1
       /\ Cardinality(AmbiOf(c, m)) = 1
       /\ ~Eligible(c, k)

\* C2: an unvisited node of count <= max_error_freq and degree 1 is the child of a
\* genuine record, exactly one and with its neighbour as parent, iff the neighbour's
\* count >= high_freq_thre, and nothing is emitted for it otherwise; a star of n
\* leaves gives exactly n genuine records, all with the centre as parent, and no
\* ambiguous group.
C2_DegreeOne ==
    \A c \in Calls :
       /\ \A n \in NodeSet(c.pre) :
             (~c.pre.flag[n] /\ Eligible(c, n) /\ Degree(c.pre, n) = 1) =>
                LET nei == c.pre.adj[n][1]
                IN  /\ AmbiOf(c, n) = {}
                    /\ IF c.pre.count[nei] >= cfg.high_freq_thre
                       THEN /\ Cardinality(GenOf(c, n)) = 1
                            /\ \A i \in GenOf(c, n) : c.gen[i].StartRead = nei
                       ELSE GenOf(c, n) = {}
       /\ \A centre \in NodeSet(c.pre) :
             IsStar(c.pre, centre) =>
                /\ Len(c.gen) = Len(c.pre.nodes) - 1
                /\ \A i \in DOMAIN c.gen : c.gen[i].StartRead = centre
                /\ \A n \in NodeSet(c.pre) \ {centre} : Cardinality(GenOf(c, n)) = 1
                /\ c.ambi = <<>>

\* a star of two leaves has been classified
C2_Witness ==
    \E c \in Calls : \E centre \in NodeSet(c.pre) :
       /\ IsStar(c.pre, centre)
       /\ Len(c.pre.nodes) = 3
       /\ Len(c.gen) = 2

\* C3: for an unvisited node of count <= max_error_freq and of degree d,
\* 1 < d <= ambiguous_error_node_degree, with k neighbours of count >=
\* high_freq_thre: k = 1 gives one genuine record with that neighbour as parent and
\* no group; k >= 2 gives one group of exactly k candidates, one per such
\* neighbour, all with the node as child, and no genuine record; k = 0 gives nothing.
C3_SeveralNeighbours ==
    \A c \in Calls : \A n \in NodeSet(c.pre) :
       (/\ ~c.pre.flag[n]
        /\ Eligible(c, n)
        /\ Degree(c.pre, n) > 1
        /\ Degree(c.pre, n) <= cfg.ambiguous_error_node_degree) =>
          LET k == Cardinality(HighNeis(c, n))
          IN  /\ k = 0 => GenOf(c, n) = {} /\ AmbiOf(c, n) = {}
              /\ k = 1 => /\ Cardinality(GenOf(c, n)) = 1
                          /\ \A i \in GenOf(c, n) : c.gen[i].StartRead \in HighNeis(c, n)
                          /\ AmbiOf(c, n) = {}
              /\ k >= 2 => /\ GenOf(c, n) = {}
                           /\ Cardinality(AmbiOf(c, n)) = 1
                           /\ \A g \in AmbiOf(c, n) :
                                 /\ Len(c.ambi[g]) = k
                                 /\ { c.ambi[g][j].StartRead : j \in DOMAIN c.ambi[g] }
                                       = HighNeis(c, n)
                                 /\ \A j \in DOMAIN c.ambi[g] : c.ambi[g][j].EndRead = n

\* a node of degree 2 with exactly one high neighbour has got its genuine record
C3_Witness ==
    \E c \in Calls : \E n \in NodeSet(c.pre) :
       /\ ~c.pre.flag[n]
       /\ Eligible(c, n)
       /\ Degree(c.pre, n) = 2
       /\ cfg.ambiguous_error_node_degree >= 2
       /\ Cardinality(HighNeis(c, n)) = 1
       /\ Cardinality(GenOf(c, n)) = 1

\* C4: a node of count > max_error_freq, or of a degree other than 1 above
\* ambiguous_error_node_degree, or already visited, is the child of no genuine
\* record and of no ambiguous candidate of the call, and the call raises nothing.
C4_Skipped ==
    \A c \in Calls :
       /\ c.raised = "none"
       /\ \A n \in NodeSet(c.pre) :
             (\/ ~Eligible(c, n)
              \/ (Degree(c.pre, n) > cfg.ambiguous_error_node_degree
                     /\ Degree(c.pre, n) # 1)
              \/ c.pre.flag[n]) =>
                GenOf(c, n) = {} /\ AmbiOf(c, n) = {}

\* one call that met a visited node it would otherwise give a genuine record, a
\* node of too high a degree and a node of too high a count
C4_Witness ==
    \E c \in Calls : \E n, m, k \in NodeSet(c.pre) :
       /\ c.pre.flag[n] /\ Eligible(c, n) /\ Degree(c.pre, n) = 1
       /\ HighNeis(c, n) # {}
       /\ GenOf(c, n) = {}
       /\ Eligible(c, m) /\ Degree(c.pre, m) > cfg.ambiguous_error_node_degree
       /\ Degree(c.pre, m) # 1
       /\ ~Eligible(c, k)

RECURSIVE ConcatGen(_)
ConcatGen(rs) == IF rs = <<>> THEN <<>> ELSE Head(rs).gen \o ConcatGen(Tail(rs))

RECURSIVE ConcatAmbi(_)
ConcatAmbi(rs) == IF rs = <<>> THEN <<>> ELSE Head(rs).ambi \o ConcatAmbi(Tail(rs))

\* C5: what extract_genuine_ambi_errs returns holds exactly the genuine records and
\* exactly the ambiguous groups its units of work returned, whatever they returned.
C5_MergeLossless ==
    pc = "extracted" =>
       /\ genuine_df = ConcatGen(res)
       /\ ambiguous_df = AmbiguousRows(ConcatAmbi(res), 0)

\* C6: the nodes of the graph generate_graph returns are exactly the unique input
\* sequences, each once, each with count = the number of its records and with
\* flag = false.
C6_NodesAreUniqueReads ==
    ret_graph.returned =>
       LET g == ret_graph.graph
       IN  /\ NodeSet(g) = SeqToSet(records)
           /\ Len(g.nodes) = Cardinality(NodeSet(g))
           /\ \A n \in NodeSet(g) : g.count[n] = CountOf(records, n) /\ ~g.flag[n]

\* a returned graph with an edge and a read that has several records
C6_Witness ==
    /\ ret_graph.returned
    /\ EdgeSet(ret_graph.graph) # {}
    /\ \E n \in NodeSet(ret_graph.graph) : ret_graph.graph.count[n] >= 2

\* C7: every edge of the returned graph joins two different reads whose edit
\* distance is edit_dis, and no neighbour is listed twice.
C7_EdgesAtEditDis ==
    ret_graph.returned =>
       LET g == ret_graph.graph
       IN  /\ \A e \in EdgeSet(g) :
                /\ Cardinality(e) = 2
                /\ \A u, v \in e : u # v => EditDistance(u, v) = cfg.edit_dis
           /\ \A n \in NodeSet(g) :
                /\ Len(g.adj[n]) = Cardinality(SeqToSet(g.adj[n]))
                /\ \A m \in SeqToSet(g.adj[n]) : n \in SeqToSet(g.adj[m])

\* a graph of edit distance 2 with an edge, and one of edit distance 1 is like it
C7_Witness ==
    /\ ret_graph.returned
    /\ cfg.edit_dis = 2
    /\ EdgeSet(ret_graph.graph) # {}

\* C8: when no read has count >= high_freq_thre the run ends in sys.exit(1) before
\* any unit of work of the neighbour search has run, and neither a graph nor any
\* output is ever produced.
C8_NoHighFrequencyReads ==
    (pc # "start" /\ \A r \in SeqToSet(records) :
                        CountOf(records, r) < cfg.high_freq_thre) =>
       /\ pc = "exited"
       /\ exit_code = 1
       /\ \A i \in DOMAIN found : ~found[i].run
       /\ collected = 0 /\ edges_lst = <<>>
       /\ ~ret_graph.returned
       /\ subgraphs = <<>> /\ passes = 0 /\ Calls = {}
       /\ genuine_df = <<>> /\ ambiguous_df = <<>> /\ negative_df = <<>>

\* a run with records but no high-frequency read has exited
C8_Witness == pc = "exited" /\ exit_code = 1 /\ records # <<>>

\* C9: when extract_genuine_ambi_errs is run again over the same subgraphs, it
\* returns no genuine record and no ambiguous group.
C9_SecondPassEmpty ==
    (pc = "extracted" /\ passes >= 2) => genuine_df = <<>> /\ ambiguous_df = <<>>

\* C10: extract_isolated_negatives returns, for every graph generate_graph builds,
\* exactly one row [read, count, 0] per node of degree 0 and count >=
\* high_freq_thre and no other row; an isolated node of lower count is in none of
\* the outputs.
C10_IsolatedNegatives ==
    pc \in {"done", "crashed"} =>
       /\ pc = "done"
       /\ \A n \in NodeSet(graph) :
             LET rows == { i \in DOMAIN negative_df : negative_df[i].StartRead = n }
             IN  /\ Cardinality(rows) =
                       (IF Degree(graph, n) = 0 /\ graph.count[n] >= cfg.high_freq_thre
                        THEN 1 ELSE 0)
                 /\ \A i \in rows : /\ negative_df[i].StartReadCount = graph.count[n]
                                    /\ negative_df[i].StartDegree = 0
       /\ \A i \in DOMAIN negative_df : negative_df[i].StartRead \in NodeSet(graph)
       /\ \A n \in NodeSet(graph) :
             (Degree(graph, n) = 0 /\ graph.count[n] < cfg.high_freq_thre) =>
                /\ \A i \in DOMAIN genuine_df : genuine_df[i].EndRead # n
                /\ \A i \in DOMAIN ambiguous_df : ambiguous_df[i].row.EndRead # n

(***************************************************************************)
(* generate_graph followed by extract_isolates.                            *)
(***************************************************************************)
\* lines 499-503: the ids of the records of these reads, read after read
RECURSIVE NamesOf(_, _)
NamesOf(order, ids) ==
    IF order = <<>> THEN <<>>
    ELSE ids[Head(order)] \o NamesOf(Tail(order), ids)

\* extract_isolates, lines 487-519, called with what generate_graph returned:
\* isolates is bound only when the graph is not connected; line 493 reads it and
\* raises UnboundLocalError when it is not bound. The two lists go to
\* extract_records, which writes the two files.
ExtractIsolates ==
    /\ pc = "built"
    /\ IF ~is_connected(graph)
       THEN /\ \E order \in Orderings(isolates(graph)),
                  non_order \in Orderings(unique_seqs \ isolates(graph)) :
                 /\ name_lst' = NamesOf(order, seqs2id_dict)
                 /\ non_name_lst' = NamesOf(non_order, seqs2id_dict)
            /\ pc' = "isolates split"
       ELSE /\ UNCHANGED <<name_lst, non_name_lst>>
            /\ pc' = "crashed"
    /\ UNCHANGED <<inputVars, exit_code, buildVars, passVars, negative_df, highVars,
                   annotVars, ampVars>>

NextIsolates ==
    \/ CountReads
    \/ \E i \in 1..MaxRecords : SearchTask(i)
    \/ CollectEdges
    \/ AddEdges
    \/ ExtractIsolates

IsolatesSpec == Init /\ [][NextIsolates]_vars

\* C16: for every graph generate_graph builds, extract_isolates puts the id of
\* every record in exactly one of its two lists, once, and in the list of the
\* isolates iff the read of the record has degree 0.
C16_Bipartition ==
    pc \in {"isolates split", "crashed"} =>
       /\ pc = "isolates split"
       /\ \A id \in DOMAIN records :
             /\ CountOf(name_lst, id) + CountOf(non_name_lst, id) = 1
             /\ Contains(name_lst, id) <=> Degree(graph, records[id]) = 0
       /\ SeqToSet(name_lst) \cup SeqToSet(non_name_lst) = DOMAIN records

(***************************************************************************)
(* generate_graph on its own, over reads of several lengths: among them    *)
(* are reads one insertion apart (G, AG), reads of one length that differ  *)
(* at three positions and are two edits apart (ACA, CAC), and reads one    *)
(* and two substitutions apart.                                            *)
(***************************************************************************)
MaxGraphRecords == 4

GraphReads == { <<"G">>, <<"A", "G">>, <<"A", "A">>,
                <<"A", "C", "A">>, <<"C", "A", "C">>, <<"C", "C", "A">> }

GraphStreams == UNION { [1..n -> GraphReads] : n \in 0..MaxGraphRecords }

\* generate_graph reads high_freq_thre and its argument edit_dis only
GraphConfigs == { c \in Configs : c.max_error_freq = 1 /\ c.ambiguous_error_node_degree = 1 }

InitGraph ==
    /\ records \in GraphStreams
    /\ cfg \in GraphConfigs
    /\ high_ambiguous = FALSE
    /\ pc = "start"
    /\ PipelineIdle
    /\ AnnotIdle

NextGraph ==
    \/ CountReads
    \/ \E i \in DOMAIN found : SearchTask(i)
    \/ CollectEdges
    \/ AddEdges

GraphSpec == InitGraph /\ [][NextGraph]_vars

\* two reads of one length that differ at exactly k positions
SubstitutionsApart(a, b, k) ==
    /\ Len(a) = Len(b)
    /\ Cardinality({ i \in DOMAIN a : a[i] # b[i] }) = k

\* C19, as stated: the edges of the graph generate_graph returns are exactly the
\* pairs of a read h of count >= high_freq_thre and another read r of its universe
\* whose edit distance from h (editdistance.eval, as line 88 computes it) is
\* edit_dis, the universe being every read when edit_dis is 1 and the reads of
\* count < high_freq_thre when it is 2; so every edge has a read of count >=
\* high_freq_thre, and when edit_dis is 2 its other read has a lower count.
C19_EditDistanceEdgeSet ==
    ret_graph.returned =>
       LET g == ret_graph.graph
           High == { n \in NodeSet(g) : g.count[n] >= cfg.high_freq_thre }
           Universe == IF cfg.edit_dis = 1 THEN NodeSet(g) ELSE NodeSet(g) \ High
       IN  /\ EdgeSet(g) = { e \in { {h, r} : h \in High, r \in Universe } :
                                 /\ Cardinality(e) = 2
                                 /\ \A u, v \in e : u # v => EditDistance(u, v) = cfg.edit_dis }
           /\ \A e \in EdgeSet(g) : e \cap High # {}
           /\ cfg.edit_dis = 2 =>
                 \A e \in EdgeSet(g) : Cardinality(e \cap High) = 1

\* C19, amended: the edges of the graph generate_graph returns are exactly the
\* pairs of a read h of count >= high_freq_thre and another read r of its universe
\* that has the length of h and differs from h at exactly edit_dis positions, the
\* universe being every read when edit_dis is 1 and the reads of count <
\* high_freq_thre when it is 2.  The edit distance of the two reads of an edge is
\* edit_dis, but a pair at that edit distance is no edge when its reads differ in
\* length or at more than edit_dis positions.  Every edge has a read of count >=
\* high_freq_thre, and when edit_dis is 2 its other read has a lower count.
C19_EdgeSet ==
    ret_graph.returned =>
       LET g == ret_graph.graph
           High == { n \in NodeSet(g) : g.count[n] >= cfg.high_freq_thre }
           Universe == IF cfg.edit_dis = 1 THEN NodeSet(g) ELSE NodeSet(g) \ High
       IN  /\ EdgeSet(g) = { e \in { {h, r} : h \in High, r \in Universe } :
                                 /\ Cardinality(e) = 2
                                 /\ \A u, v \in e :
                                       u # v => SubstitutionsApart(u, v, cfg.edit_dis) }
           /\ \A e \in EdgeSet(g) :
                 \A u, v \in e : u # v => EditDistance(u, v) = cfg.edit_dis
           /\ \A e \in EdgeSet(g) : e \cap High # {}
           /\ cfg.edit_dis = 2 =>
                 \A e \in EdgeSet(g) : Cardinality(e \cap High) = 1

\* a returned graph with an edge, in which a read of count >= high_freq_thre and a
\* read of its universe are at edit distance edit_dis and not adjacent
C19_Witness ==
    /\ ret_graph.returned
    /\ EdgeSet(ret_graph.graph) # {}
    /\ LET g == ret_graph.graph
           High == { n \in NodeSet(g) : g.count[n] >= cfg.high_freq_thre }
           Universe == IF cfg.edit_dis = 1 THEN NodeSet(g) ELSE NodeSet(g) \ High
       IN  \E h \in High, r \in Universe :
              /\ h # r
              /\ EditDistance(h, r) = cfg.edit_dis
              /\ {h, r} \notin EdgeSet(g)

(***************************************************************************)
(* extract_err_samples called on a graph that generate_graph has built with *)
(* some edit distance, over reads that give several components.            *)
(***************************************************************************)
SampleReads == << <<"A", "A">>, <<"C", "A">>, <<"C", "C">>, <<"A", "C">>,
                  <<"A", "G">>, <<"G">> >>

CountValues == {0, 1, 2}

MaxSampleRecords == 7

RECURSIVE Sum(_, _)
Sum(c, i) == IF i > Len(c) THEN 0 ELSE c[i] + Sum(c, i + 1)

\* how many records every read of SampleReads has, MaxSampleRecords at most in
\* all; the read of another length, which no read is adjacent to, has at most one
SampleCounts == { c \in [DOMAIN SampleReads -> CountValues] :
                     c[Len(SampleReads)] <= 1 /\ Sum(c, 1) <= MaxSampleRecords }

\* the configurations of the calls: reads of one record are the candidate
\* children, a child may have two neighbours
SampleConfigs == { c \in Configs : c.max_error_freq = 1 /\ c.ambiguous_error_node_degree = 2 }

RECURSIVE StreamOf(_, _)
StreamOf(counts, i) ==
    IF i > Len(SampleReads) THEN <<>>
    ELSE [k \in 1..counts[i] |-> SampleReads[i]] \o StreamOf(counts, i + 1)

\* lines 575-591: the lists the units of work may give edges_lst, every unit in
\* every order its set of neighbours may be iterated in, the units in the order
\* of high_freq
RECURSIVE SearchEdges(_, _, _, _)
SearchEdges(high, total_seqs, thre, edit_dis) ==
    IF high = <<>> THEN { <<>> }
    ELSE { e \o t :
              e \in (IF edit_dis = 1
                     THEN real_ed1_seqs(SeqToSet(total_seqs), Head(high))
                     ELSE real_ed2_seqs(LowFreqOf(total_seqs, thre), Head(high))),
              t \in SearchEdges(Tail(high), total_seqs, thre, edit_dis) }

\* lines 541-620: the graphs generate_graph may return for these records
GraphsOf(total_seqs, thre, edit_dis) ==
    LET g == AddCountedNodes(EmptyGraph, read_count(total_seqs), total_seqs)
    IN  { IF Len(found_edges) > 0 THEN add_edges_from(g, found_edges) ELSE g :
             found_edges \in SearchEdges(HighFreqOf(total_seqs, thre), total_seqs,
                                         thre, edit_dis) }

\* extract_err_samples(graph, edit_dis) is called; the graph was built with the
\* edit distance of the call, or with 2 when the call says 1
InitSamples ==
    /\ \E counts \in SampleCounts, build_dis \in EditDisValues :
          /\ records = StreamOf(counts, 1)
          /\ cfg \in SampleConfigs
          /\ build_dis = cfg.edit_dis \/ cfg.edit_dis = 1
          /\ HighFreqOf(records, cfg.high_freq_thre) # <<>>
          /\ graph \in GraphsOf(records, cfg.high_freq_thre, build_dis)
    /\ high_ambiguous \in BOOLEAN
    /\ pc = "built"
    /\ BuildIdle
    /\ ExtractIdle
    /\ AnnotIdle

\* line 274: the exception of a unit of work reaches the calling process as soon
\* as the unit has raised it, whatever results the loop has taken so far
RaiseWorkerError ==
    /\ pc = "classify"
    /\ \E ii \in DOMAIN res : res[ii].run /\ res[ii].raised # "none"
    /\ pc' = "failed"
    /\ UNCHANGED <<inputVars, otherVars, exit_code, buildVars, passVars, negative_df>>

NextSamples ==
    \/ MakeSubgraphs
    \/ StartPass
    \/ \E ii \in DOMAIN SampleReads : ClassifyTask(ii)
    \/ MergeResult
    \/ RaiseWorkerError
    \/ FinishPass
    \/ ExtractIsolatedNegatives
    \/ ReturnSamples

SamplesSpec == InitSamples /\ [][NextSamples]_vars

\* the units of work of the pool that have run
PoolCalls == { c \in { res[i] : i \in DOMAIN res } : c.run }

\* C14: when a unit of work of the classification has raised, the call of
\* extract_genuine_ambi_errs never returns: the run is still in the loop over the
\* results or has failed, and no genuine and no ambiguous output exists.
C14_FailFast ==
    (\E c \in PoolCalls : c.raised # "none") =>
       /\ pc \in {"classify", "failed"}
       /\ genuine_df = <<>>
       /\ ambiguous_df = <<>>

\* the call has failed on the exception of one unit of work after it had taken the
\* result of another unit, which had raised nothing
C14_Witness ==
    /\ pc = "failed"
    /\ merged >= 2
    /\ res[merged].raised = "ValueError"
    /\ \E i \in 1..(merged - 1) : res[i].run /\ res[i].raised = "none"

\* the edges of the graph whose two reads both have count > high_freq_thre
HighEdges == { e \in EdgeSet(graph) : \A n \in e : graph.count[n] > cfg.high_freq_thre }

\* the rows of the high ambiguous errors with parent a and child b
HighRows(a, b) ==
    { i \in DOMAIN high_ambiguous_df.rows :
         /\ high_ambiguous_df.rows[i].row.StartRead = a
         /\ high_ambiguous_df.rows[i].row.EndRead = b }

\* C15: extract_high_ambiguous_errs gives, for every edge whose two reads both have
\* count > high_freq_thre, exactly two rows of one idx, one with either read as the
\* parent of the other, and no row for another edge; different edges have different
\* idx; and it is run only when edit_dis is 1 and config.high_ambiguous is set.
C15_HighAmbiguous ==
    /\ pc = "returned" =>
          (high_ambiguous_df.returned <=> (cfg.edit_dis = 1 /\ high_ambiguous))
    /\ high_ambiguous_df.returned =>
          LET rows == high_ambiguous_df.rows
          IN  /\ cfg.edit_dis = 1 /\ high_ambiguous
              /\ Len(rows) = 2 * Cardinality(HighEdges)
              /\ \A i \in DOMAIN rows : {rows[i].row.StartRead, rows[i].row.EndRead} \in HighEdges
              /\ \A e \in HighEdges : \A a, b \in e :
                    a # b => /\ Cardinality(HighRows(a, b)) = 1
                             /\ \A i \in HighRows(a, b), j \in HighRows(b, a) :
                                   rows[i].idx = rows[j].idx
              /\ \A i, j \in DOMAIN rows :
                    rows[i].idx = rows[j].idx =>
                       {rows[i].row.StartRead, rows[i].row.EndRead}
                          = {rows[j].row.StartRead, rows[j].row.EndRead}

\* the rows of two edges of reads of count > high_freq_thre have been returned, for
\* a graph that has another node as well
C15_Witness ==
    /\ pc = "returned"
    /\ high_ambiguous_df.returned
    /\ Cardinality(HighEdges) = 2
    /\ Len(high_ambiguous_df.rows) = 4

\* the rows of ambiguous_df with this idx, in their order
RowsOfIdx(k) == SelectSeq(ambiguous_df, LAMBDA r : r.idx = k)

\* C17: in the ambiguous output the rows of one idx are the candidates of one
\* ambiguous group and the rows of one group have one idx; every idx has at least
\* two rows, all with the same child and with different parents; the idx values
\* are 0, 1, 2, ... in the order of the merge, without a gap.  The groups are read
\* from ambiguous_lst as line 291 leaves it (every row with its idx in front) and
\* each is, without its idx, a group a unit of work returned.
C17_IdxGroups ==
    pc \in {"extracted", "done", "crashed", "returned"} =>
       /\ { ambiguous_df[i].idx : i \in DOMAIN ambiguous_df } = 0..(Len(ambiguous_lst) - 1)
       /\ \A i \in DOMAIN ambiguous_df :
             /\ i = 1 => ambiguous_df[i].idx = 0
             /\ i > 1 => ambiguous_df[i].idx \in { ambiguous_df[i - 1].idx,
                                                   ambiguous_df[i - 1].idx + 1 }
       /\ \A k \in 0..(Len(ambiguous_lst) - 1) :
             LET rows == RowsOfIdx(k)
             IN  /\ rows = ambiguous_lst[k + 1]
                 /\ \E j \in DOMAIN res : \E g \in DOMAIN res[j].ambi :
                       res[j].ambi[g] = [i \in DOMAIN rows |-> rows[i].row]
                 /\ Len(rows) >= 2
                 /\ \A i, j \in DOMAIN rows :
                       /\ rows[i].row.EndRead = rows[j].row.EndRead
                       /\ i # j => rows[i].row.StartRead # rows[j].row.StartRead

\* an ambiguous output of two groups, of different children
C17_Witness ==
    /\ pc = "extracted"
    /\ Len(ambiguous_lst) = 2
    /\ Len(ambiguous_df) = 4
    /\ ambiguous_df[1].row.EndRead # ambiguous_df[4].row.EndRead

\* the nodes whose flag a unit of work has written
Written(c) == { n \in NodeSet(c.pre) : c.post.flag[n] # c.pre.flag[n] }

\* the nodes a unit of work has read an attribute of: the nodes of its loop, their
\* neighbours, and the reads of its records
Touched(c) ==
    NodeSet(c.pre) \cup NodeSet(c.post)
       \cup UNION { SeqToSet(c.pre.adj[n]) : n \in NodeSet(c.pre) }
       \cup { c.gen[i].StartRead : i \in DOMAIN c.gen }
       \cup { c.gen[i].EndRead : i \in DOMAIN c.gen }
       \cup UNION { { c.ambi[g][j].StartRead : j \in DOMAIN c.ambi[g] }
                      \cup { c.ambi[g][j].EndRead : j \in DOMAIN c.ambi[g] } :
                    g \in DOMAIN c.ambi }

\* what the first k units of work of the pool have touched, unit after unit
RECURSIVE TouchedUpTo(_)
TouchedUpTo(k) ==
    IF k = 0 THEN <<>> ELSE Append(TouchedUpTo(k - 1), Touched(res[k]))

\* C18: the components are pairwise disjoint, a unit of work of the pool reads and
\* writes only nodes of its own component, and so, in whatever order the units
\* run, no node is read or written by two units and no flag is written twice.
C18_DisjointUnits ==
    /\ \A i, j \in DOMAIN subgraphs :
          i # j => NodeSet(subgraphs[i]) \cap NodeSet(subgraphs[j]) = {}
    /\ LET touched == TouchedUpTo(Len(res))
       IN  \A k \in DOMAIN res :
              res[k].run =>
                 /\ res[k].ii = k
                 /\ touched[k] \subseteq NodeSet(subgraphs[k])
                 /\ \A i \in DOMAIN wsub : i # k => touched[k] \cap NodeSet(wsub[i]) = {}
                 /\ \A l \in DOMAIN res :
                       (res[l].run /\ l # k) => touched[k] \cap touched[l] = {}

\* two units of work have each written the flag of a node, the second of the
\* subgraphs first
C18_Witness ==
    \E c, d \in PoolCalls :
       /\ c.ii < d.ii
       /\ Written(c) # {}
       /\ Written(d) # {}
       /\ \E i \in DOMAIN res : i > d.ii /\ ~res[i].run

\* the records and the candidates a call of the classifier has returned
RecordsOf(c) ==
    { c.gen[i] : i \in DOMAIN c.gen }
       \cup UNION { { c.ambi[g][j] : j \in DOMAIN c.ambi[g] } : g \in DOMAIN c.ambi }

\* C20: in every genuine record and every ambiguous candidate of the classifier,
\* StartReadCount and StartDegree are the count and the degree of its StartRead,
\* EndReadCount and EndDegree those of its EndRead; the StartRead is a neighbour
\* of the EndRead, of count >= high_freq_thre, and the EndRead has count <=
\* max_error_freq.
C20_RecordFields ==
    \A c \in Calls : \A r \in RecordsOf(c) :
       /\ r.StartReadCount = c.pre.count[r.StartRead]
       /\ r.StartDegree = Degree(c.pre, r.StartRead)
       /\ r.EndReadCount = c.pre.count[r.EndRead]
       /\ r.EndDegree = Degree(c.pre, r.EndRead)
       /\ Contains(c.pre.adj[r.EndRead], r.StartRead)
       /\ r.StartReadCount >= cfg.high_freq_thre
       /\ r.EndReadCount <= cfg.max_error_freq

(***************************************************************************)
(* err_type_classification called on its own, on any two short reads.      *)
(***************************************************************************)
MaxReadLen == 3

AnnotBases == {"A", "C"}

AnnotReads == UNION { [1..n -> AnnotBases] : n \in 0..MaxReadLen }

AnnotNumbers == {1, 2}

Lines == [StartRead : AnnotReads, StartReadCount : AnnotNumbers,
          StartDegree : AnnotNumbers,
          EndRead : AnnotReads, EndReadCount : AnnotNumbers, EndDegree : AnnotNumbers]

\* the annotator reads nothing of the configuration
AnnotConfig == [high_freq_thre |-> 1, max_error_freq |-> 1,
                ambiguous_error_node_degree |-> 1, edit_dis |-> 1]

InitAnnot ==
    /\ annot_line \in Lines
    /\ annot_out = NotAnnotated
    /\ pc = "annotate"
    /\ records = <<>>
    /\ cfg = AnnotConfig
    /\ high_ambiguous = FALSE
    /\ PipelineIdle

\* one call of err_type_classification
Annotate ==
    /\ pc = "annotate"
    /\ annot_out' = err_type_classification(annot_line)
    /\ pc' = "annotated"
    /\ UNCHANGED <<inputVars, exit_code, buildVars, passVars, negative_df, highVars,
                   isoVars, ampVars, annot_line>>

NextAnnot == Annotate

AnnotSpec == InitAnnot /\ [][NextAnnot]_vars

\* the indexes (from 0) where two reads of one length differ
Mismatches(a, b) == { i \in 0..(Len(a) - 1) : a[i + 1] # b[i + 1] }

\* the flanking context of index p in read r: two characters at either end,
\* three otherwise
Window(r, p) ==
    IF p = 0 THEN SubSeq(r, 1, Min(2, Len(r)))
    ELSE IF p = Len(r) - 1 THEN SubSeq(r, Max(1, Len(r) - 1), Len(r))
    ELSE SubSeq(r, p, p + 2)

\* the result of the annotator for parent a and child b
ExampleOf(a, b) ==
    err_type_classification([StartRead |-> a, StartReadCount |-> 2, StartDegree |-> 1,
                             EndRead |-> b, EndReadCount |-> 1, EndDegree |-> 1])

\* C11: for two reads of equal length at edit distance 1 the annotator returns
\* ErrorPosition = the one index p where they differ, ErrorTye = parent[p] "-"
\* child[p], and as k-mers the same window of both reads: the first two characters
\* when p = 0, the last two when p is the last index, the three characters
\* p-1..p+1 otherwise; ACGT/ACCT gives G-C, 2, CGT, CCT and ACGT/CCGT gives A-C, 0,
\* AC, CC.
C11_EqualLengths ==
    /\ (/\ pc = "annotated"
        /\ Len(annot_line.StartRead) = Len(annot_line.EndRead)
        /\ EditDistance(annot_line.StartRead, annot_line.EndRead) = 1) =>
          LET parent == annot_line.StartRead
              child == annot_line.EndRead
              D == Mismatches(parent, child)
          IN  /\ Cardinality(D) = 1
              /\ annot_out.raised = "none"
              /\ \A p \in D :
                    /\ annot_out.line.ErrorPosition = p
                    /\ annot_out.line.ErrorTye = <<parent[p + 1], "-", child[p + 1]>>
                    /\ annot_out.line.StartErrKmer = Window(parent, p)
                    /\ annot_out.line.EndErrKmer = Window(child, p)
    /\ LET r == ExampleOf(<<"A", "C", "G", "T">>, <<"A", "C", "C", "T">>)
       IN  /\ r.raised = "none"
           /\ r.line.ErrorTye = <<"G", "-", "C">>
           /\ r.line.ErrorPosition = 2
           /\ r.line.StartErrKmer = <<"C", "G", "T">>
           /\ r.line.EndErrKmer = <<"C", "C", "T">>
    /\ LET r == ExampleOf(<<"A", "C", "G", "T">>, <<"C", "C", "G", "T">>)
       IN  /\ r.raised = "none"
           /\ r.line.ErrorTye = <<"A", "-", "C">>
           /\ r.line.ErrorPosition = 0
           /\ r.line.StartErrKmer = <<"A", "C">>
           /\ r.line.EndErrKmer = <<"C", "C">>

\* two reads of length 3 that differ at their last index have been annotated
C11_Witness ==
    /\ pc = "annotated"
    /\ Len(annot_line.StartRead) = 3
    /\ Len(annot_line.EndRead) = 3
    /\ Mismatches(annot_line.StartRead, annot_line.EndRead) = {2}
    /\ annot_out.raised = "none"
    /\ Len(annot_out.line.StartErrKmer) = 2

\* the k-mer of the shorter read: X at the gap, next to the bases it has there
GapWindow(short, p) ==
    (IF p >= 1 THEN <<short[p]>> ELSE <<>>) \o <<"X">>
       \o (IF p = 0 /\ Len(short) >= 1 THEN <<short[1]>>
           ELSE IF p >= 1 /\ p < Len(short) THEN <<short[p + 1]>> ELSE <<>>)

\* C12: for two reads at edit distance 1 whose lengths differ by one the annotator
\* returns ErrorPosition = p, the first index where they disagree, or the length of
\* the shorter read when that is a prefix of the longer; ErrorTye = "X-" child[p]
\* when the parent is the shorter and parent[p] "-X" when it is the longer; the
\* k-mer of the shorter read has X at the gap next to its bases there, the k-mer of
\* the longer is two characters at either end and three otherwise.
C12_LengthsDifferByOne ==
    (/\ pc = "annotated"
     /\ Len(annot_line.StartRead) # Len(annot_line.EndRead)
     /\ EditDistance(annot_line.StartRead, annot_line.EndRead) = 1) =>
       LET parent == annot_line.StartRead
           child == annot_line.EndRead
           short == IF Len(parent) < Len(child) THEN parent ELSE child
           long == IF Len(parent) < Len(child) THEN child ELSE parent
           p == FirstMismatch(short, long, Len(short))
       IN  /\ Len(long) = Len(short) + 1
           /\ annot_out.raised = "none"
           /\ annot_out.line.ErrorPosition = p
           /\ annot_out.line.ErrorTye =
                 (IF short = parent THEN <<"X", "-", child[p + 1]>>
                  ELSE <<parent[p + 1], "-", "X">>)
           /\ annot_out.line.StartErrKmer =
                 (IF short = parent THEN GapWindow(parent, p) ELSE Window(parent, p))
           /\ annot_out.line.EndErrKmer =
                 (IF short = parent THEN Window(child, p) ELSE GapWindow(child, p))

\* C13: the annotator raises ValueError (InvalidEditDistance) if and only if the
\* edit distance of its two reads is not exactly 1, and whenever it raises it
\* returns no record.
C13_InvalidEditDistance ==
    pc = "annotated" =>
       /\ annot_out.raised = "ValueError" <=>
             EditDistance(annot_line.StartRead, annot_line.EndRead) # 1
       /\ annot_out.raised # "none" => annot_out.line = NoLine

\* the annotator has raised on two reads of equal length at distance 2, and on two
\* equal reads it does the same
C13_Witness ==
    /\ pc = "annotated"
    /\ annot_out.raised = "ValueError"
    /\ Len(annot_line.StartRead) = Len(annot_line.EndRead)
    /\ EditDistance(annot_line.StartRead, annot_line.EndRead) = 2
    /\ ExampleOf(<<"A", "C">>, <<"A", "C">>).raised = "ValueError"

(***************************************************************************)
(* extract_umi_genuine_errs: generate_graph with edit distance 1, then the *)
(* loop that takes the neighbour of the highest score as the parent.       *)
(***************************************************************************)
\* line 219: the highest degree of a node the loop looks at
UmiDegreeLimit == 4

\* lines 223-228: (nei, tt, nei_count) for every neighbour, in the order of the
\* neighbours.  tt = nei_degree * 0.5 + nei_count * 0.5 is kept as 2 * tt, which
\* is an integer and orders the neighbours the same way.
NeiDegreeCount(sg, node) ==
    [i \in DOMAIN sg.adj[node] |->
        LET nei == sg.adj[node][i]
        IN  <<nei, Degree(sg, nei) + sg.count[nei], sg.count[nei]>>]

\* lines 216-240: the body of the loop over the nodes; acc is
\* [raised, gen (the rows of genuine_df), sg (the subgraph and its flags)]
UmiNode(acc, node, config) ==
    LET sg == acc.sg
        node_count == sg.count[node]
        node_degree == Degree(sg, node)
        first == SortDesc(NeiDegreeCount(sg, node))[1]
        first_nei == first[1]
        first_nei_count == first[3]
        newline == err_type_classification(
                       MakeLine(sg, first_nei, first_nei_count, first_nei, node))
    IN  IF acc.raised # "none" THEN acc
        ELSE IF /\ node_degree >= 1
                /\ node_degree <= UmiDegreeLimit
                /\ node_count <= config.max_error_freq
                /\ ~sg.flag[node]
        THEN IF first_nei_count >= config.high_freq_thre
             THEN IF newline.raised # "none" THEN [acc EXCEPT !.raised = newline.raised]
                  ELSE [acc EXCEPT !.gen = Append(@, newline.line),
                                   !.sg.flag[node] = TRUE]
             ELSE acc
        ELSE acc

\* line 215: the loop over the nodes of one subgraph
RECURSIVE UmiNodes(_, _, _)
UmiNodes(acc, nodes_lst, config) ==
    IF nodes_lst = <<>> THEN acc
    ELSE \* the first node is handled once, then the loop goes on from what it left
         CHOOSE r \in { UmiNodes(a, Tail(nodes_lst), config) :
                           a \in {UmiNode(acc, Head(nodes_lst), config)} } : TRUE

\* lines 211-214: the loop over the subgraphs, one after the other; acc is
\* [raised, gen, subs (the subgraphs the loop has left behind)]
RECURSIVE UmiSubgraphs(_, _, _)
UmiSubgraphs(acc, todo, config) ==
    IF todo = <<>> THEN acc
    ELSE LET sub_graph == Head(todo)
             start == [raised |-> acc.raised, gen |-> acc.gen, sg |-> sub_graph]
             out == IF Cardinality(EdgeSet(sub_graph)) > 0
                    THEN UmiNodes(start, sub_graph.nodes, config)
                    ELSE start
         IN  CHOOSE r \in { UmiSubgraphs(a, Tail(todo), config) :
                               a \in {[raised |-> out.raised, gen |-> out.gen,
                                       subs |-> Append(acc.subs, out.sg)]} } : TRUE

\* lines 209-244, when generate_graph has returned: the subgraphs are copied, the
\* loop fills genuine_df, and genuine_df is returned
ExtractUmiGenuineErrs ==
    /\ pc = "built"
    /\ \E subs \in SubgraphLists(graph, connected_components(graph)) :
         LET out == UmiSubgraphs([raised |-> "none", gen |-> <<>>, subs |-> <<>>],
                                 subs, cfg)
         IN  IF out.raised # "none"
             THEN /\ pc' = "failed"
                  /\ UNCHANGED <<subgraphs, genuine_df>>
             ELSE /\ pc' = "umi returned"
                  /\ subgraphs' = out.subs
                  /\ genuine_df' = out.gen
    /\ UNCHANGED <<inputVars, otherVars, exit_code, buildVars, wsub, res, merged,
                   genuine_lst, ambiguous_lst, ambiguous_df, passes, direct,
                   negative_df>>

\* a read with five neighbours that are not neighbours of each other
UmiStar == << <<"A", "A", "A", "A", "A">>, <<"C", "A", "A", "A", "A">>,
              <<"A", "C", "A", "A", "A">>, <<"A", "A", "C", "A", "A">>,
              <<"A", "A", "A", "C", "A">>, <<"A", "A", "A", "A", "C">> >>

\* CC between CA and AC, which have other neighbours of their own
UmiMixed == << <<"C", "C">>, <<"C", "C">>, <<"C", "A">>, <<"C", "A">>, <<"A", "C">>,
               <<"A", "A">>, <<"A", "A">>, <<"A", "G">>, <<"A", "G">> >>

\* the records of the runs: every stream of Streams, and the two above
UmiStreams == Streams \cup {UmiStar, UmiMixed}

UmiDegreeValues == {2, 5}

\* line 208: the graph is built with edit_dis=1
UmiConfigs == [high_freq_thre : HighFreqThreValues,
               max_error_freq : MaxErrorFreqValues,
               ambiguous_error_node_degree : UmiDegreeValues,
               edit_dis : {1}]

InitUmi ==
    /\ records \in UmiStreams
    /\ cfg \in UmiConfigs
    /\ high_ambiguous = FALSE
    /\ pc = "start"
    /\ PipelineIdle
    /\ AnnotIdle

NextUmi ==
    \/ CountReads
    \/ \E i \in DOMAIN found : SearchTask(i)
    \/ CollectEdges
    \/ AddEdges
    \/ ExtractUmiGenuineErrs

UmiSpec == InitUmi /\ [][NextUmi]_vars

(***************************************************************************)
(* extract_amplicon_err_samples: generate_graph with edit distance 1, then *)
(* one group of rows per node of a low count, a row per neighbour of a     *)
(* high count.  cfg carries the two arguments of the call,                 *)
(* amplicon_low_freq and amplicon_high_freq, with the configuration.       *)
(***************************************************************************)
\* lines 686-691: the flags of a subgraph with an edge are set to False
ResetFlags(sg) ==
    IF Cardinality(EdgeSet(sg)) > 0
    THEN [sg EXCEPT !.flag = [n \in DOMAIN sg.flag |-> FALSE]]
    ELSE sg

\* lines 698-717: the body of the loop over the nodes; acc is
\* [raised, rows (the rows of amplicon_df), idx, sg (the subgraph and its flags)]
AmpliconNode(acc, node, config) ==
    LET sg == acc.sg
        node_count == sg.count[node]
        node_degree == Degree(sg, node)
        node_neis == sg.adj[node]
        high_neis == SelectSeq(node_neis,
                               LAMBDA n : sg.count[n] >= config.amplicon_high_freq)
        new_lines == [i \in DOMAIN high_neis |->
                         err_type_classification(
                             MakeLine(sg, high_neis[i], sg.count[high_neis[i]],
                                      high_neis[i], node))]
    IN  IF acc.raised # "none" THEN acc
        ELSE IF /\ node_count <= config.amplicon_low_freq
                /\ ~sg.flag[node]
                /\ node_degree <= config.amplicon_error_node_degree
        THEN IF FirstRaised(new_lines) # "none"
             THEN [acc EXCEPT !.raised = FirstRaised(new_lines)]
             ELSE [raised |-> "none",
                   rows |-> acc.rows \o [i \in DOMAIN new_lines |->
                                            [idx |-> acc.idx, row |-> new_lines[i].line]],
                   idx |-> acc.idx + 1,
                   sg |-> [sg EXCEPT !.flag[node] = TRUE]]
        ELSE acc

\* line 697: the loop over the nodes of one subgraph
RECURSIVE AmpliconNodes(_, _, _)
AmpliconNodes(acc, nodes_lst, config) ==
    IF nodes_lst = <<>> THEN acc
    ELSE \* the first node is handled once, then the loop goes on from what it left
         CHOOSE r \in { AmpliconNodes(a, Tail(nodes_lst), config) :
                           a \in {AmpliconNode(acc, Head(nodes_lst), config)} } : TRUE

\* lines 685-717: the loops over the subgraphs, one subgraph after the other; acc
\* is [raised, rows, idx, subs (the subgraphs the loops have left behind)]
RECURSIVE AmpliconSubgraphs(_, _, _)
AmpliconSubgraphs(acc, todo, config) ==
    IF todo = <<>> THEN acc
    ELSE LET sub_graph == ResetFlags(Head(todo))
             start == [raised |-> acc.raised, rows |-> acc.rows, idx |-> acc.idx,
                       sg |-> sub_graph]
             out == IF Cardinality(EdgeSet(sub_graph)) > 0
                    THEN AmpliconNodes(start, sub_graph.nodes, config)
                    ELSE start
         IN  CHOOSE r \in { AmpliconSubgraphs(a, Tail(todo), config) :
                               a \in {[raised |-> out.raised, rows |-> out.rows,
                                       idx |-> out.idx,
                                       subs |-> Append(acc.subs, out.sg)]} } : TRUE

\* lines 682-721, when generate_graph has returned: the subgraphs are copied, the
\* loops fill amplicon_df, and amplicon_df is returned
ExtractAmpliconErrSamples ==
    /\ pc = "built"
    /\ \E subs \in SubgraphLists(graph, connected_components(graph)) :
         LET out == AmpliconSubgraphs([raised |-> "none", rows |-> <<>>, idx |-> 0,
                                       subs |-> <<>>], subs, cfg)
         IN  IF out.raised # "none"
             THEN /\ pc' = "failed"
                  /\ UNCHANGED <<subgraphs, amplicon_df>>
             ELSE /\ pc' = "amplicon returned"
                  /\ subgraphs' = out.subs
                  /\ amplicon_df' = out.rows
    /\ UNCHANGED <<inputVars, exit_code, buildVars, wsub, res, merged, genuine_lst,
                   ambiguous_lst, genuine_df, ambiguous_df, passes, direct,
                   negative_df, highVars, isoVars, annotVars>>

\* a read of a low count between two reads of a high count, and a read alone
AmpliconPair == << <<"A", "A">>, <<"A", "A">>, <<"C", "A">>, <<"C", "C">>,
                   <<"C", "C">>, <<"G">> >>

\* four reads in a ring
AmpliconRing == << <<"A", "A">>, <<"A", "A">>, <<"C", "A">>, <<"C", "A">>,
                   <<"C", "C">>, <<"C", "C">>, <<"A", "C">> >>

\* AA with three neighbours, two of them neighbours of CC
AmpliconFan == << <<"A", "A">>, <<"A", "A">>, <<"C", "A">>, <<"A", "C">>,
                  <<"A", "G">>, <<"C", "C">>, <<"C", "C">> >>

AmpliconStreams == Streams \cup {AmpliconPair, AmpliconRing, AmpliconFan}

AmpliconFreqValues == {1, 2}

AmpliconDegreeValues == {1, 2, 4}

\* line 679: the graph is built with edit_dis=1 and config.high_freq_thre
AmpliconConfigs == [high_freq_thre : HighFreqThreValues,
                    amplicon_low_freq : AmpliconFreqValues,
                    amplicon_high_freq : AmpliconFreqValues,
                    amplicon_error_node_degree : AmpliconDegreeValues,
                    edit_dis : {1}]

InitAmplicon ==
    /\ records \in AmpliconStreams
    /\ cfg \in AmpliconConfigs
    /\ high_ambiguous = FALSE
    /\ pc = "start"
    /\ PipelineIdle
    /\ AnnotIdle

NextAmplicon ==
    \/ CountReads
    \/ \E i \in DOMAIN found : SearchTask(i)
    \/ CollectEdges
    \/ AddEdges
    \/ ExtractAmpliconErrSamples

AmpliconSpec == InitAmplicon /\ [][NextAmplicon]_vars

\* the neighbour of n with the highest score 0.5 * degree + 0.5 * count, the first
\* of them in the order of the neighbours of n
UmiParent(g, n) ==
    LET neis == g.adj[n]
        twice_score(i) == Degree(g, neis[i]) + g.count[neis[i]]
    IN  neis[CHOOSE i \in DOMAIN neis :
                \A j \in DOMAIN neis :
                   \/ twice_score(i) > twice_score(j)
                   \/ twice_score(i) = twice_score(j) /\ i <= j]

\* the rows of genuine_df whose child is n
UmiRowsOf(n) == { i \in DOMAIN genuine_df : genuine_df[i].EndRead = n }

\* C21: when extract_umi_genuine_errs has returned, no node is the child of more
\* than one record, and every node with count <= max_error_freq and
\* 1 <= degree <= ambiguous_error_node_degree (no node is visited before the
\* loop) is the child of exactly one record, whose parent is the neighbour of
\* the highest score, the first of them in the order of the neighbours in the
\* subgraph of the node, if the count of that neighbour is >= high_freq_thre,
\* and of no record otherwise.
C21_UmiVariant ==
    pc = "umi returned" =>
       \A k \in DOMAIN subgraphs : \A n \in NodeSet(subgraphs[k]) :
          LET sg == subgraphs[k]
          IN  /\ Cardinality(UmiRowsOf(n)) <= 1
              /\ ( /\ sg.count[n] <= cfg.max_error_freq
                   /\ 1 <= Degree(sg, n)
                   /\ Degree(sg, n) <= cfg.ambiguous_error_node_degree )
                 => IF sg.count[UmiParent(sg, n)] >= cfg.high_freq_thre
                    THEN /\ Cardinality(UmiRowsOf(n)) = 1
                         /\ \A i \in UmiRowsOf(n) :
                               genuine_df[i].StartRead = UmiParent(sg, n)
                    ELSE UmiRowsOf(n) = {}

\* C22: on a graph generate_graph has built and with max_error_freq <
\* high_freq_thre, every neighbour of a node of count <= max_error_freq has a
\* count >= high_freq_thre.  So in every call of the classifier the child of a
\* genuine record has degree 1, an unvisited node of count <= max_error_freq and
\* degree 1 is the child of one genuine record, one of degree d, 2 <= d <=
\* ambiguous_error_node_degree, is the child of one ambiguous group of exactly d
\* candidates and of no genuine record, and no such node has exactly one
\* neighbour of count >= high_freq_thre among several, or none at all.
C22_LowErrorNeighbours ==
    cfg.max_error_freq < cfg.high_freq_thre =>
       /\ ret_graph.returned =>
             \A n \in NodeSet(ret_graph.graph) :
                ret_graph.graph.count[n] <= cfg.max_error_freq =>
                   \A m \in SeqToSet(ret_graph.graph.adj[n]) :
                      ret_graph.graph.count[m] >= cfg.high_freq_thre
       /\ \A c \in Calls :
             /\ \A i \in DOMAIN c.gen :
                   /\ c.gen[i].EndDegree = 1
                   /\ Degree(c.pre, c.gen[i].EndRead) = 1
             /\ \A n \in NodeSet(c.pre) :
                   Eligible(c, n) =>
                      LET d == Degree(c.pre, n)
                      IN  /\ HighNeis(c, n) = SeqToSet(c.pre.adj[n])
                          /\ ~(d >= 2 /\ Cardinality(HighNeis(c, n)) = 1)
                          /\ ~(d >= 1 /\ HighNeis(c, n) = {})
                          /\ (~c.pre.flag[n] /\ d = 1) =>
                                Cardinality(GenOf(c, n)) = 1
                          /\ (~c.pre.flag[n] /\ d >= 2
                                 /\ d <= cfg.ambiguous_error_node_degree) =>
                                /\ GenOf(c, n) = {}
                                /\ Cardinality(AmbiOf(c, n)) = 1
                                /\ \A g \in AmbiOf(c, n) : Len(c.ambi[g]) = d

\* with max_error_freq < high_freq_thre, a call has met an unvisited node of
\* count <= max_error_freq between two neighbours and has given it a group of two
\* candidates, on a graph generate_graph returned
C22_Witness ==
    /\ cfg.max_error_freq < cfg.high_freq_thre
    /\ ret_graph.returned
    /\ \E c \in Calls : \E n \in NodeSet(c.pre) :
          /\ ~c.pre.flag[n]
          /\ Eligible(c, n)
          /\ Degree(c.pre, n) = 2
          /\ \E g \in AmbiOf(c, n) : Len(c.ambi[g]) = 2

\* C23: a call of the classifier changes nothing of its component but flags: the
\* nodes, the edges, the count and the degree of every node are after the call
\* what they were before it; a flag that was set stays set; a flag the call has
\* set is the flag of a node of count <= max_error_freq in a component with at
\* least one edge.  The graph generate_graph returned is never changed.
C23_OnlyFlagsChange ==
    /\ ret_graph.returned => graph = ret_graph.graph
    /\ \A c \in Calls :
          /\ c.post.nodes = c.pre.nodes
          /\ c.post.adj = c.pre.adj
          /\ EdgeSet(c.post) = EdgeSet(c.pre)
          /\ c.post.count = c.pre.count
          /\ \A n \in NodeSet(c.pre) :
                /\ Degree(c.post, n) = Degree(c.pre, n)
                /\ c.pre.flag[n] => c.post.flag[n]
                /\ (c.post.flag[n] /\ ~c.pre.flag[n]) =>
                      /\ c.pre.count[n] <= cfg.max_error_freq
                      /\ EdgeSet(c.pre) # {}

\* the pass has set the flag of a node and left the flag of its neighbour of a
\* higher count, and it has left the flag of a node of count <= max_error_freq
\* that is a component of its own
C23_Witness ==
    /\ \E c \in Calls : \E n, m \in NodeSet(c.pre) :
          /\ ~c.pre.flag[n] /\ c.post.flag[n]
          /\ c.pre.count[m] > cfg.max_error_freq
          /\ ~c.post.flag[m]
    /\ \E c \in Calls : \E n \in NodeSet(c.pre) :
          /\ EdgeSet(c.pre) = {}
          /\ Eligible(c, n)
          /\ ~c.post.flag[n]

====
